---- MODULE Spec2Model ----
(***************************************************************************)
(* Weather-App (src/src/App.tsx): the acquisition pipeline of useWeather.  *)
(* React state of the hook, the asynchronous continuations in flight, and  *)
(* the pure helpers geocodeCity, reverseGeocode, fetchWeatherFree,         *)
(* buildLocationLabel and classifyBackground.                              *)
(*                                                                         *)
(* Conventions:                                                            *)
(*   - a JavaScript value that may be null/undefined is None or Some(x);   *)
(*   - a message string is a sequence of string parts, template literals   *)
(*     and joins are concatenations of parts;                              *)
(*   - an HTTP response is [net, status, body]; net = FALSE is a rejected  *)
(*     fetch (transport failure).                                          *)
(***************************************************************************)
EXTENDS Integers, Sequences, FiniteSets, TLC

VARIABLES
    units,          \* useState<Units>('metric')
    searchQuery,    \* useState('')
    searchMode,     \* useState<SearchMode>('city')
    backgroundKind, \* useState<BackgroundKind>('cloudy')
    fetchState,     \* useState<FetchState>('idle')
    error,          \* useState<string | null>(null)
    weather,        \* useState<ResolvedWeather | null>(null)
    mounted,        \* the mount effect of useWeather has run
    hasGeolocation, \* navigator.geolocation is present in this browser
    tasks,          \* asynchronous continuations awaiting a callback or a promise
    nStarted,       \* number of resolutions started so far (request numbers 1..nStarted)
    lastResolved,   \* request number and kind of the resolution that finished last
    input,          \* arguments of a helper called on its own, None when none is
    output,         \* what that helper returned, None before it has returned
    locals          \* local variables of that helper while it runs, None when unused

vars == <<units, searchQuery, searchMode, backgroundKind, fetchState, error,
          weather, mounted, hasGeolocation, tasks, nStarted, lastResolved,
          input, output, locals>>

\* the state of the hook and of its continuations
hookVars == <<units, searchQuery, searchMode, backgroundKind, fetchState, error,
              weather, mounted, hasGeolocation, tasks, nStarted, lastResolved>>

\* a helper called on its own
callVars == <<input, output, locals>>

uiVars == <<units, searchQuery, searchMode, backgroundKind, fetchState, error, weather>>

\* Resolutions (asynchronous intents) started in one run.
MaxResolutions == 2

None == <<>>
Some(x) == <<x>>
IsSome(o) == o /= None
Get(o) == o[1]

----------------------------------------------------------------------------
\* Strings

\* a string literal as a message of one part
Str(s) == <<s>>

\* a || b where a is a JSON string field that may be undefined ('' is falsy)
OrElse(a, b) == IF a = None \/ Get(a) = "" THEN b ELSE Str(Get(a))

\* err?.message || b where err.message is a message or undefined
MsgOr(m, b) == IF m = None \/ Get(m) = <<>> THEN b ELSE Get(m)

IsSpace(c) == c = " "

RECURSIVE TrimStart(_)
TrimStart(s) ==
    IF s = <<>> THEN s
    ELSE IF IsSpace(Head(s)) THEN TrimStart(Tail(s)) ELSE s

RECURSIVE TrimEnd(_)
TrimEnd(s) ==
    IF s = <<>> THEN s
    ELSE IF IsSpace(s[Len(s)]) THEN TrimEnd(SubSeq(s, 1, Len(s) - 1)) ELSE s

\* String.prototype.trim on a string given as its characters
Trim(s) == TrimEnd(TrimStart(s))

RECURSIVE Join(_, _)
\* Array.prototype.join(sep) on an array of strings
Join(parts, sep) ==
    IF parts = <<>> THEN <<>>
    ELSE IF Len(parts) = 1 THEN Str(Head(parts))
    ELSE Str(Head(parts)) \o Str(sep) \o Join(Tail(parts), sep)

----------------------------------------------------------------------------
\* classifyBackground

\* variant: the textual rules come before the numeric ones
classifyBackgroundTextFirst(main, weatherId) ==
    IF main \in {"Drizzle", "Rain"} THEN "rain"
    ELSE IF main \in {"Snow"} THEN "snow"
    ELSE IF main \in {"Thunderstorm"} THEN "storm"
    ELSE IF weatherId >= 200 /\ weatherId < 300 THEN "storm"
    ELSE IF weatherId >= 600 /\ weatherId < 700 THEN "snow"
    ELSE IF weatherId >= 500 /\ weatherId < 600 THEN "rain"
    ELSE IF weatherId >= 800 /\ weatherId <= 802 THEN "sunny"
    ELSE "cloudy"

\* variant: only a clear sky (800) is sunny
classifyBackgroundOnlyClearSky(main, weatherId) ==
    IF weatherId >= 200 /\ weatherId < 300 THEN "storm"
    ELSE IF weatherId >= 600 /\ weatherId < 700 THEN "snow"
    ELSE IF weatherId >= 500 /\ weatherId < 600 THEN "rain"
    ELSE IF weatherId = 800 THEN "sunny"
    ELSE IF weatherId >= 801 /\ weatherId <= 804 THEN "cloudy"
    ELSE IF main \in {"Drizzle", "Rain"} THEN "rain"
    ELSE IF main \in {"Snow"} THEN "snow"
    ELSE IF main \in {"Thunderstorm"} THEN "storm"
    ELSE "cloudy"

classifyBackground(main, weatherId) ==
    IF weatherId >= 200 /\ weatherId < 300 THEN "storm"
    ELSE IF weatherId >= 600 /\ weatherId < 700 THEN "snow"
    ELSE IF weatherId >= 500 /\ weatherId < 600 THEN "rain"
    ELSE IF weatherId = 800 THEN "sunny"
    ELSE IF weatherId = 801 \/ weatherId = 802 THEN "sunny"
    ELSE IF weatherId >= 803 /\ weatherId <= 804 THEN "cloudy"
    ELSE IF main \in {"Drizzle", "Rain"} THEN "rain"
    ELSE IF main \in {"Snow"} THEN "snow"
    ELSE IF main \in {"Thunderstorm"} THEN "storm"
    ELSE "cloudy"

----------------------------------------------------------------------------
\* buildLocationLabel

buildLocationLabel(geo, fallback) ==
    IF IsSome(geo)
    THEN LET g == Get(geo)
             p1 == <<g.name>>
             p2 == IF IsSome(g.state) /\ Get(g.state) /= g.name
                   THEN Append(p1, Get(g.state)) ELSE p1
             p3 == IF IsSome(g.country) THEN Append(p2, Get(g.country)) ELSE p2
         IN  Join(p3, ", ")
    ELSE IF IsSome(fallback) THEN Get(fallback) ELSE Str("Current location")

----------------------------------------------------------------------------
\* The upstream provider and the device, as the code sees them

\* OPENWEATHER_API_KEY: the fallback literal's length
ApiKeyLen == 32

Units == {"metric", "imperial"}

\* GeocodingResult records of the provider's directory
Paris ==
    [name |-> "Paris", lat |-> 48, lon |-> 2,
     country |-> Some("FR"), state |-> Some("Ile-de-France")]
NewYork ==
    [name |-> "New York", lat |-> 40, lon |-> -74,
     country |-> Some("US"), state |-> Some("New York")]
DevicePlace ==
    [name |-> "Bengaluru", lat |-> 12, lon |-> 77,
     country |-> Some("IN"), state |-> None]

\* position.coords of a successful getCurrentPosition
DeviceCoords == [latitude |-> 12, longitude |-> 77]

\* 'New York', the default place name of loadDefaultCity
DefaultCityQuery == <<"N", "e", "w", " ", "Y", "o", "r", "k">>
ParisQuery == <<"P", "a", "r", "i", "s">>

\* values the search box can hold
Queries ==
    { <<>>,
      <<" ", " ", " ">>,
      <<" ">> \o ParisQuery \o <<" ">> }

\* the candidates the direct geocoding endpoint knows for a (trimmed) query
Directory(q) ==
    IF q = ParisQuery THEN <<Paris>>
    ELSE IF q = DefaultCityQuery THEN <<NewYork>>
    ELSE <<>>

\* the candidates the reverse geocoding endpoint knows for a coordinate pair
ReverseDirectory(lat, lon) ==
    IF lat = DevicePlace.lat /\ lon = DevicePlace.lon THEN <<DevicePlace>> ELSE <<>>

NetFail == [net |-> FALSE]
Http(status, body) == [net |-> TRUE, status |-> status, body |-> body]
\* a response whose body is not JSON: resp.json() rejects
Garbled(status) == [net |-> TRUE, status |-> status]
\* Response.ok
RespOk(resp) == resp.status >= 200 /\ resp.status <= 299

\* what a geocoding request for q may come back with
GeocodeResponses(q) ==
    { NetFail,
      Http(401, [message |-> Some("Invalid API key"), cod |-> Some("401")]),
      Http(500, [message |-> None, cod |-> None]),
      Http(200, Directory(q)),
      Http(200, <<>>) }

ReverseResponses(lat, lon) ==
    { NetFail,
      Http(500, [message |-> None, cod |-> None]),
      Http(200, ReverseDirectory(lat, lon)),
      Http(200, <<>>),
      Garbled(200) }

\* degrees Celsius observed now at a coordinate pair
CelsiusAt(lat, lon) ==
    IF lat = Paris.lat THEN 20 ELSE IF lat = NewYork.lat THEN 5 ELSE 30

\* the provider reports temperatures in the requested unit system
InUnits(c, u) == IF u = "metric" THEN c ELSE (c * 9) \div 5 + 32

WeatherEntry(id, main, description) ==
    [id |-> id, main |-> main, description |-> description, icon |-> "01d"]

\* the weather array of the provider's payloads for a coordinate pair
WeatherAt(lat, lon) ==
    IF lat = Paris.lat THEN <<WeatherEntry(800, "Clear", "clear sky")>>
    ELSE IF lat = NewYork.lat THEN <<WeatherEntry(500, "Rain", "light rain")>>
    ELSE <<WeatherEntry(741, "Thunderstorm", "storm nearby")>>

\* epoch seconds of the observation: 03:00 UTC of a day
NowDt == 1700017200

\* a successful /weather payload (CurrentWeatherResponse)
CurrentBody(lat, lon, u, cod) ==
    LET base == [cod |-> cod, message |-> None,
                 coord |-> [lat |-> lat, lon |-> lon],
                 weather |-> WeatherAt(lat, lon),
                 main |-> [temp |-> InUnits(CelsiusAt(lat, lon), u),
                           feels_like |-> InUnits(CelsiusAt(lat, lon) - 1, u),
                           humidity |-> 60],
                 wind |-> [speed |-> IF u = "metric" THEN 4 ELSE 9],
                 sys |-> [sunrise |-> NowDt - 3600, sunset |-> NowDt + 36000],
                 dt |-> NowDt]
    IN  \* New York's payload carries no timezone field
        IF lat = NewYork.lat THEN base
        ELSE base @@ [timezone |-> IF lat = Paris.lat THEN 3600 ELSE 19800]

ForecastItem(dt, temp, lo, hi, wx) ==
    [dt |-> dt, main |-> [temp |-> temp, temp_min |-> lo, temp_max |-> hi],
     weather |-> wx]

\* the 3-hour samples the provider forecasts for a coordinate pair
ForecastList(lat, lon, u) ==
    LET c == CelsiusAt(lat, lon)
        w == WeatherAt(lat, lon)
    IN  << ForecastItem(NowDt + 10800, InUnits(c + 1, u), InUnits(c, u),
                        InUnits(c + 2, u), w),
           ForecastItem(NowDt + 21600, InUnits(c + 3, u), InUnits(c - 1, u),
                        InUnits(c + 3, u), <<WeatherEntry(803, "Clouds", "broken clouds")>>),
           ForecastItem(NowDt + 86400, InUnits(c - 2, u), InUnits(c - 4, u),
                        InUnits(c - 1, u), w) >>

\* a successful /forecast payload (ForecastResponse)
ForecastBody(lat, lon, u, cod, list) ==
    [cod |-> cod, message |-> None, list |-> list,
     city |-> [timezone |-> IF lat = NewYork.lat THEN -18000
                            ELSE IF lat = Paris.lat THEN 3600 ELSE 19800]]

CodUndefined == [t |-> "undefined"]
CodNumber(n) == [t |-> "number", v |-> n]
CodString(s) == [t |-> "string", v |-> s]
CodNull == [t |-> "null"]

\* what the /weather request may come back with
CurrentResponses(lat, lon, u) ==
    { NetFail,
      Http(401, [message |-> Some("Invalid API key")]),
      Http(500, [message |-> None]),
      Http(200, [cod |-> CodNumber(429), message |-> Some("limit reached")]),
      Http(200, CurrentBody(lat, lon, u, CodNumber(200))) }

\* what the /forecast request may come back with
ForecastResponses(lat, lon, u) ==
    { NetFail,
      Http(500, [message |-> Some("Internal error")]),
      Http(200, [cod |-> CodString("404"), message |-> Some("no forecast")]),
      Http(200, ForecastBody(lat, lon, u, CodString("200"), <<>>)),
      Http(200, ForecastBody(lat, lon, u, CodString("200"), ForecastList(lat, lon, u))) }

\* the reasons getCurrentPosition may call its error callback with; only the
\* mount effect passes a timeout
PositionErrors(withTimeout) ==
    {"denied", "unavailable"} \cup (IF withTimeout THEN {"timeout"} ELSE {})

----------------------------------------------------------------------------
\* Results of the asynchronous helpers: a value, or a thrown Error

Ok(v) == [ok |-> TRUE, value |-> v]
Throw(msg) == [ok |-> FALSE, message |-> Some(msg)]

\* apiKey && apiKey.length >= 20
ApiKeyValid == ApiKeyLen > 0 /\ ApiKeyLen >= 20

\* `HTTP ${resp.status}`
HttpStatusText(resp) == <<"HTTP ", ToString(resp.status)>>

\* the q parameter geocodeCity sends
GeocodeRequest(query) == Trim(query)

\* geocodeCity, given the response its request came back with
geocodeCity(query, resp) ==
    IF ~ApiKeyValid THEN Throw(Str("API key appears to be invalid or missing"))
    ELSE IF ~resp.net THEN Throw(Str("Failed to fetch"))
    ELSE IF ~RespOk(resp)
    THEN LET errorMessage ==
                 IF resp.body.message /= None /\ Get(resp.body.message) /= ""
                 THEN Str(Get(resp.body.message))
                 ELSE OrElse(resp.body.cod, HttpStatusText(resp))
         IN  IF resp.status = 401
             THEN Throw(Str("API key authentication failed: ") \o errorMessage
                        \o Str(". Please verify your API key is correct and activated at https://home.openweathermap.org/api_keys"))
             ELSE Throw(<<"Geocoding API error (", ToString(resp.status), "): ">>
                        \o errorMessage)
    ELSE LET data == resp.body
         IN  IF Len(data) = 0 THEN Ok(None) ELSE Ok(Some(data[1]))

\* reverseGeocode, given the response its request came back with: never throws
reverseGeocode(lat, lon, resp) ==
    IF ~resp.net THEN None
    ELSE IF ~RespOk(resp) THEN None
    ELSE IF "body" \notin DOMAIN resp THEN None
    ELSE LET data == resp.body
         IN  IF Len(data) = 0 THEN None ELSE Some(data[1])

----------------------------------------------------------------------------
\* fetchWeatherFree

Min(a, b) == IF a <= b THEN a ELSE b
Max(a, b) == IF a >= b THEN a ELSE b

\* getUTCFullYear, getUTCMonth, getUTCDate of new Date(dt * 1000)
UtcDate(dt) ==
    LET z == dt \div 86400 + 719468
        era == z \div 146097
        doe == z - era * 146097
        yoe == (doe - doe \div 1460 + doe \div 36524 - doe \div 146096) \div 365
        doy == doe - (365 * yoe + yoe \div 4 - yoe \div 100)
        mp == (5 * doy + 2) \div 153
        d == doy - (153 * mp + 2) \div 5 + 1
        m == IF mp < 10 THEN mp + 3 ELSE mp - 9
        y == yoe + era * 400 + (IF m <= 2 THEN 1 ELSE 0)
    IN  [year |-> y, month |-> m - 1, date |-> d]

\* `${d.getUTCFullYear()}-${d.getUTCMonth()}-${d.getUTCDate()}`
DayKey(dt) ==
    LET d == UtcDate(dt)
    IN  <<ToString(d.year), "-", ToString(d.month), "-", ToString(d.date)>>

\* position of key in the insertion-ordered dailyMap, 0 when absent
MapIndex(map, key) ==
    IF \E i \in 1..Len(map) : map[i].key = key
    THEN CHOOSE i \in 1..Len(map) : map[i].key = key
    ELSE 0

\* variant: a repeat key takes the range of the newest sample
DailyStepLastRange(map, item) ==
    LET dayKey == DayKey(item.dt)
        idx == MapIndex(map, dayKey)
        entry == [dt |-> item.dt, min |-> item.main.temp_min,
                  max |-> item.main.temp_max, day |-> item.main.temp,
                  weather |-> item.weather]
    IN  IF idx = 0
        THEN Append(map, [key |-> dayKey, v |-> entry])
        ELSE [map EXCEPT ![idx].v = [entry EXCEPT !.dt = map[idx].v.dt]]

\* variant: a repeat key also takes the newest sample's timestamp
DailyStepLastTimestamp(map, item) ==
    LET dayKey == DayKey(item.dt)
        idx == MapIndex(map, dayKey)
        entry == [dt |-> item.dt, min |-> item.main.temp_min,
                  max |-> item.main.temp_max, day |-> item.main.temp,
                  weather |-> item.weather]
    IN  IF idx = 0
        THEN Append(map, [key |-> dayKey, v |-> entry])
        ELSE [map EXCEPT ![idx].v =
                 [entry EXCEPT !.min = Min(map[idx].v.min, item.main.temp_min),
                               !.max = Max(map[idx].v.max, item.main.temp_max)]]

\* variant: a repeat key widens the range and keeps the first sample's
\* temperature and condition
DailyStepFirstWins(map, item) ==
    LET dayKey == DayKey(item.dt)
        idx == MapIndex(map, dayKey)
    IN  IF idx = 0
        THEN Append(map, [key |-> dayKey,
                          v |-> [dt |-> item.dt, min |-> item.main.temp_min,
                                 max |-> item.main.temp_max, day |-> item.main.temp,
                                 weather |-> item.weather]])
        ELSE [map EXCEPT ![idx].v.min = Min(@, item.main.temp_min),
                         ![idx].v.max = Max(@, item.main.temp_max)]

\* variant: a repeat key replaces the temperature and the condition and leaves
\* the range of the first sample
DailyStepKeepsFirstRange(map, item) ==
    LET dayKey == DayKey(item.dt)
        idx == MapIndex(map, dayKey)
    IN  IF idx = 0
        THEN Append(map, [key |-> dayKey,
                          v |-> [dt |-> item.dt, min |-> item.main.temp_min,
                                 max |-> item.main.temp_max, day |-> item.main.temp,
                                 weather |-> item.weather]])
        ELSE [map EXCEPT ![idx].v.day = item.main.temp,
                         ![idx].v.weather = item.weather]

\* one iteration of the loop over forecastList
DailyStep(map, item) ==
    LET dayKey == DayKey(item.dt)
        idx == MapIndex(map, dayKey)
        temp == item.main.temp
        min == item.main.temp_min
        max == item.main.temp_max
    IN  IF idx = 0
        THEN Append(map, [key |-> dayKey,
                          v |-> [dt |-> item.dt, min |-> min, max |-> max,
                                 day |-> temp, weather |-> item.weather]])
        ELSE [map EXCEPT ![idx].v =
                 [dt |-> @.dt, min |-> Min(@.min, min), max |-> Max(@.max, max),
                  day |-> temp, weather |-> item.weather]]

RECURSIVE DailyMap(_, _)
\* dailyMap after the loop over the rest of forecastList
DailyMap(map, list) ==
    IF list = <<>> THEN map ELSE DailyMap(DailyStep(map, Head(list)), Tail(list))

\* variant: no slice(0, 8)
DailyEntriesUncapped(entries) ==
    [i \in 1..Len(entries) |->
        [dt |-> entries[i].v.dt,
         temp |-> [min |-> entries[i].v.min, max |-> entries[i].v.max,
                   day |-> entries[i].v.day],
         weather |-> entries[i].v.weather]]

\* Array.from(dailyMap.entries()).slice(0, 8).map(...)
DailyEntries(entries) ==
    LET kept == SubSeq(entries, 1, Min(8, Len(entries)))
    IN  [i \in 1..Len(kept) |->
            [dt |-> kept[i].v.dt,
             temp |-> [min |-> kept[i].v.min, max |-> kept[i].v.max, day |-> kept[i].v.day],
             weather |-> kept[i].v.weather]]

\* daily, from forecastList
DailyOf(forecastList) == DailyEntries(DailyMap(<<>>, forecastList))

\* variant: an empty forecast leaves daily empty
SyntheticDailyNone(current) == <<>>

\* the single entry built from current conditions when daily is empty
SyntheticDaily(current) ==
    << [dt |-> current.dt,
        temp |-> [min |-> current.main.temp, max |-> current.main.temp,
                  day |-> current.main.temp],
        weather |-> current.weather] >>

CodOf(body) == IF "cod" \in DOMAIN body THEN body.cod ELSE CodUndefined

\* variant: only the number 200 counts as success
CodOkNumberOnly(cod) ==
    \/ cod.t = "undefined"
    \/ (cod.t = "number" /\ cod.v = 200)

\* cod === undefined || cod === 200 || cod === '200'
CodOk(cod) ==
    \/ cod.t = "undefined"
    \/ (cod.t = "number" /\ cod.v = 200)
    \/ (cod.t = "string" /\ cod.v = "200")

\* variant: || in place of ??, so an offset of 0 counts as absent
TimezoneOffsetTruthy(current, forecast) ==
    IF "timezone" \in DOMAIN current /\ current.timezone /= 0 THEN current.timezone
    ELSE IF /\ "city" \in DOMAIN forecast
            /\ "timezone" \in DOMAIN forecast.city
            /\ forecast.city.timezone /= 0
    THEN forecast.city.timezone
    ELSE 0

\* current.timezone ?? forecast?.city?.timezone ?? 0
TimezoneOffset(current, forecast) ==
    IF "timezone" \in DOMAIN current THEN current.timezone
    ELSE IF "city" \in DOMAIN forecast /\ "timezone" \in DOMAIN forecast.city
    THEN forecast.city.timezone
    ELSE 0

\* the OneCallResponse built from the two parsed payloads
OneCallOf(current, forecastList, timezoneOffset) ==
    LET daily == DailyOf(forecastList)
    IN  [lat |-> current.coord.lat,
         lon |-> current.coord.lon,
         timezone |-> "",
         timezone_offset |-> timezoneOffset,
         current |-> [dt |-> current.dt,
                      sunrise |-> current.sys.sunrise,
                      sunset |-> current.sys.sunset,
                      temp |-> current.main.temp,
                      feels_like |-> current.main.feels_like,
                      humidity |-> current.main.humidity,
                      wind_speed |-> current.wind.speed,
                      weather |-> current.weather],
         daily |-> IF Len(daily) /= 0 THEN daily ELSE SyntheticDaily(current)]

\* forecastOk && Array.isArray(forecast.list) ? forecast.list : []
ForecastListOf(forecast) ==
    IF CodOk(CodOf(forecast)) /\ "list" \in DOMAIN forecast THEN forecast.list ELSE <<>>

\* fetchWeatherFree, given the responses its two requests came back with
fetchWeatherFree(currentResp, forecastResp) ==
    IF ~ApiKeyValid THEN Throw(Str("API key appears to be invalid or missing"))
    ELSE IF ~currentResp.net \/ ~forecastResp.net THEN Throw(Str("Failed to fetch"))
    ELSE IF ~RespOk(currentResp)
    THEN LET msg == OrElse(currentResp.body.message, HttpStatusText(currentResp))
         IN  IF currentResp.status = 401
             THEN Throw(Str("Invalid API key: ") \o msg
                        \o Str(". Check your key at https://home.openweathermap.org/api_keys"))
             ELSE Throw(msg)
    ELSE IF ~RespOk(forecastResp)
    THEN Throw(OrElse(forecastResp.body.message, HttpStatusText(forecastResp)))
    ELSE LET current == currentResp.body
             forecast == forecastResp.body
         IN  IF ~CodOk(CodOf(current))
             THEN Throw(OrElse(current.message, Str("Current weather request failed")))
             ELSE Ok(OneCallOf(current, ForecastListOf(forecast),
                               TimezoneOffset(current, forecast)))

\* fetchOneCall delegates to fetchWeatherFree
fetchOneCall(currentResp, forecastResp) == fetchWeatherFree(currentResp, forecastResp)

----------------------------------------------------------------------------
\* useWeather: state after construction

HookInit ==
    /\ units = "metric"
    /\ searchQuery = <<>>
    /\ searchMode = "city"
    /\ backgroundKind = "cloudy"
    /\ fetchState = "idle"
    /\ error = None
    /\ weather = None
    /\ mounted = FALSE
    /\ tasks = {}
    /\ nStarted = 0
    /\ lastResolved = [id |-> 0, kind |-> "none"]

Init ==
    /\ HookInit
    /\ hasGeolocation \in BOOLEAN
    /\ input = None
    /\ output = None
    /\ locals = None

\* a continuation of resolution number id, with the values its closure captured
Task(id, kind, pc, u) ==
    [id |-> id, kind |-> kind, pc |-> pc, units |-> u,
     query |-> <<>>, lat |-> 0, lon |-> 0, geo |-> None,
     label |-> <<>>, countryCode |-> None, oneCall |-> None]

CanStart == nStarted < MaxResolutions

\* an intent suspends at its first await or callback registration
Spawn(t) ==
    /\ tasks' = tasks \cup {t}
    /\ nStarted' = nStarted + 1
    /\ UNCHANGED <<lastResolved, callVars>>

\* a continuation suspends at its next await
Continue(t, next) ==
    /\ tasks' = (tasks \ {t}) \cup {next}
    /\ UNCHANGED <<nStarted, lastResolved, callVars>>

\* a continuation runs to its end
Finish(t) ==
    /\ tasks' = tasks \ {t}
    /\ lastResolved' = [id |-> t.id, kind |-> t.kind]
    /\ UNCHANGED <<nStarted, callVars>>

NoTaskChange == UNCHANGED <<tasks, nStarted, lastResolved, callVars>>

\* the ResolvedWeather object literal of the four success paths
Resolved(locationName, countryCode, oneCall) ==
    [locationName |-> locationName,
     countryCode |-> countryCode,
     current |-> oneCall.current,
     daily |-> oneCall.daily,
     timezoneOffset |-> oneCall.timezone_offset,
     lat |-> oneCall.lat,
     lon |-> oneCall.lon]

\* const head = oneCall.current.weather[0]; setBackgroundKind(classifyBackground(...))
HeadKind(oneCall) ==
    LET head == oneCall.current.weather[1]
    IN  classifyBackground(head.main, head.id)

----------------------------------------------------------------------------
\* handleUnitsChange

\* variant: a failed refresh blanks the display
UnitsFailedClears(t) ==
    /\ fetchState' = "error"
    /\ error' = Some(Str("Unable to refresh weather for the new unit."))
    /\ weather' = None
    /\ backgroundKind' = "cloudy"
    /\ UNCHANGED <<units, searchQuery, searchMode>>

\* the catch block of handleUnitsChange
UnitsFailed(t) ==
    /\ fetchState' = "error"
    /\ error' = Some(Str("Unable to refresh weather for the new unit."))
    /\ UNCHANGED <<units, searchQuery, searchMode, backgroundKind, weather>>

\* variant: the refreshed current conditions are shown over the previous daily list
UnitsSucceededPartial(t, fresh) ==
    /\ backgroundKind' = HeadKind(fresh)
    /\ weather' = Some([Resolved(t.label, t.countryCode, fresh) EXCEPT
                           !.daily = Get(weather).daily])
    /\ fetchState' = "success"
    /\ UNCHANGED <<units, searchQuery, searchMode, error>>

\* variant: the refreshed snapshot is labelled like a device position
UnitsSucceededDropsLabel(t, fresh) ==
    /\ backgroundKind' = HeadKind(fresh)
    /\ weather' = Some(Resolved(buildLocationLabel(None, Some(Str("Current location"))),
                                t.countryCode, fresh))
    /\ fetchState' = "success"
    /\ UNCHANGED <<units, searchQuery, searchMode, error>>

\* the statements of handleUnitsChange after the await
UnitsSucceeded(t, fresh) ==
    /\ backgroundKind' = HeadKind(fresh)
    /\ weather' = Some(Resolved(t.label, t.countryCode, fresh))
    /\ fetchState' = "success"
    /\ UNCHANGED <<units, searchQuery, searchMode, error>>

\* variant: no early return when next equals the current unit system
HandleUnitsChangeAlways(next) ==
    /\ mounted
    /\ IF weather = None
       THEN /\ units' = next
            /\ UNCHANGED <<searchQuery, searchMode, backgroundKind, fetchState, error, weather>>
            /\ NoTaskChange
       ELSE /\ CanStart
            /\ units' = next
            /\ fetchState' = "loading"
            /\ error' = None
            /\ UNCHANGED <<searchQuery, searchMode, backgroundKind, weather>>
            /\ Spawn([Task(nStarted + 1, "units", "fetch", next) EXCEPT
                        !.lat = Get(weather).lat, !.lon = Get(weather).lon,
                        !.label = Get(weather).locationName,
                        !.countryCode = Get(weather).countryCode])
    /\ UNCHANGED <<mounted, hasGeolocation>>

\* variant: Loading is entered before the snapshot check
HandleUnitsChangeLoadingFirst(next) ==
    /\ mounted
    /\ IF next = units
       THEN UNCHANGED uiVars /\ NoTaskChange
       ELSE IF weather = None
       THEN /\ units' = next
            /\ fetchState' = "loading"
            /\ error' = None
            /\ UNCHANGED <<searchQuery, searchMode, backgroundKind, weather>>
            /\ NoTaskChange
       ELSE /\ CanStart
            /\ units' = next
            /\ fetchState' = "loading"
            /\ error' = None
            /\ UNCHANGED <<searchQuery, searchMode, backgroundKind, weather>>
            /\ Spawn([Task(nStarted + 1, "units", "fetch", next) EXCEPT
                        !.lat = Get(weather).lat, !.lon = Get(weather).lon,
                        !.label = Get(weather).locationName,
                        !.countryCode = Get(weather).countryCode])
    /\ UNCHANGED <<mounted, hasGeolocation>>

\* variant: the re-fetch asks for the unit system of the render it closed over
HandleUnitsChangeStaleUnit(next) ==
    /\ mounted
    /\ IF next = units
       THEN UNCHANGED uiVars /\ NoTaskChange
       ELSE IF weather = None
       THEN /\ units' = next
            /\ UNCHANGED <<searchQuery, searchMode, backgroundKind, fetchState, error, weather>>
            /\ NoTaskChange
       ELSE /\ CanStart
            /\ units' = next
            /\ fetchState' = "loading"
            /\ error' = None
            /\ UNCHANGED <<searchQuery, searchMode, backgroundKind, weather>>
            /\ Spawn([Task(nStarted + 1, "units", "fetch", units) EXCEPT
                        !.lat = Get(weather).lat, !.lon = Get(weather).lon,
                        !.label = Get(weather).locationName,
                        !.countryCode = Get(weather).countryCode])
    /\ UNCHANGED <<mounted, hasGeolocation>>

\* handleUnitsChange(next) up to its await
HandleUnitsChange(next) ==
    /\ mounted
    /\ IF next = units
       THEN UNCHANGED uiVars /\ NoTaskChange
       ELSE IF weather = None
       THEN /\ units' = next
            /\ UNCHANGED <<searchQuery, searchMode, backgroundKind, fetchState, error, weather>>
            /\ NoTaskChange
       ELSE /\ CanStart
            /\ units' = next
            /\ fetchState' = "loading"
            /\ error' = None
            /\ UNCHANGED <<searchQuery, searchMode, backgroundKind, weather>>
            /\ Spawn([Task(nStarted + 1, "units", "fetch", next) EXCEPT
                        !.lat = Get(weather).lat, !.lon = Get(weather).lon,
                        !.label = Get(weather).locationName,
                        !.countryCode = Get(weather).countryCode])
    /\ UNCHANGED <<mounted, hasGeolocation>>

\* handleUnitsChange resumes with the outcome r of fetchOneCall
UnitsFetched(t, r) ==
    /\ t.kind = "units" /\ t.pc = "fetch"
    /\ IF r.ok THEN UnitsSucceeded(t, r.value) ELSE UnitsFailed(t)
    /\ Finish(t)
    /\ UNCHANGED <<mounted, hasGeolocation>>

----------------------------------------------------------------------------
\* the mount effect of useWeather: device location, then the default city

\* useEffect(() => {...}, []) up to getCurrentPosition
Mount ==
    /\ ~mounted
    /\ mounted' = TRUE
    /\ IF ~hasGeolocation
       THEN UNCHANGED uiVars /\ NoTaskChange
       ELSE /\ fetchState' = "loading"
            /\ searchMode' = "geo"
            /\ UNCHANGED <<units, searchQuery, backgroundKind, error, weather>>
            /\ Spawn(Task(nStarted + 1, "start", "position", units))
    /\ UNCHANGED hasGeolocation

\* the success callback of the effect up to its first await
StartPosition(t) ==
    /\ t.kind = "start" /\ t.pc = "position"
    /\ Continue(t, [t EXCEPT !.pc = "fetch",
                             !.lat = DeviceCoords.latitude,
                             !.lon = DeviceCoords.longitude])
    /\ UNCHANGED <<uiVars, mounted, hasGeolocation>>

\* variant: the message carries no suggestion
StartFailedPlain(err) ==
    /\ fetchState' = "error"
    /\ error' = Some(MsgOr(err.message, Str("Unable to get weather for your location.")))
    /\ UNCHANGED <<units, searchQuery, searchMode, backgroundKind, weather>>

\* the catch block of the effect's success callback
StartFailed(err) ==
    LET errorMsg == MsgOr(err.message, Str("Unable to get weather for your location."))
    IN  /\ fetchState' = "error"
        /\ error' = Some(errorMsg \o Str(" Please search for a city instead."))
        /\ UNCHANGED <<units, searchQuery, searchMode, backgroundKind, weather>>

\* variant: a failed fetch asks the device for its position again
StartFetchedRetries(t, r) ==
    /\ t.kind = "start" /\ t.pc = "fetch"
    /\ IF r.ok
       THEN /\ Continue(t, [t EXCEPT !.pc = "reverse", !.oneCall = Some(r.value)])
            /\ UNCHANGED uiVars
       ELSE /\ Continue(t, [t EXCEPT !.pc = "position"])
            /\ UNCHANGED uiVars
    /\ UNCHANGED <<mounted, hasGeolocation>>

\* the success callback resumes with the outcome r of fetchOneCall
StartFetched(t, r) ==
    /\ t.kind = "start" /\ t.pc = "fetch"
    /\ IF r.ok
       THEN /\ Continue(t, [t EXCEPT !.pc = "reverse", !.oneCall = Some(r.value)])
            /\ UNCHANGED uiVars
       ELSE /\ StartFailed(r)
            /\ Finish(t)
    /\ UNCHANGED <<mounted, hasGeolocation>>

\* the statements of the success callback after reverseGeocode
StartSucceeded(geo, oneCall) ==
    /\ backgroundKind' = HeadKind(oneCall)
    /\ weather' = Some(Resolved(buildLocationLabel(geo, Some(Str("Current location"))),
                                IF IsSome(geo) THEN Get(geo).country ELSE None,
                                oneCall))
    /\ fetchState' = "success"
    /\ UNCHANGED <<units, searchQuery, searchMode, error>>

\* variant: a missing place aborts the resolution
StartReversedRequiresPlace(t, geo) ==
    /\ t.kind = "start" /\ t.pc = "reverse"
    /\ IF geo = None
       THEN StartFailed(Throw(Str("Unable to name your location.")))
       ELSE StartSucceeded(geo, Get(t.oneCall))
    /\ Finish(t)
    /\ UNCHANGED <<mounted, hasGeolocation>>

\* the success callback resumes with the outcome geo of reverseGeocode
StartReversed(t, geo) ==
    /\ t.kind = "start" /\ t.pc = "reverse"
    /\ StartSucceeded(geo, Get(t.oneCall))
    /\ Finish(t)
    /\ UNCHANGED <<mounted, hasGeolocation>>

\* the error callback of the effect: loadDefaultCity up to its first await
StartPositionError(t, reason) ==
    /\ t.kind = "start" /\ t.pc = "position"
    /\ fetchState' = "loading"
    /\ UNCHANGED <<units, searchQuery, searchMode, backgroundKind, error, weather>>
    /\ Continue(t, [t EXCEPT !.kind = "default", !.pc = "geocode",
                             !.query = DefaultCityQuery])
    /\ UNCHANGED <<mounted, hasGeolocation>>

\* variant: a missing default city is reported like a failed search
DefaultNotFoundAsError ==
    /\ fetchState' = "error"
    /\ error' = Some(Str("No results for that city. Try another name."))
    /\ UNCHANGED <<units, searchQuery, searchMode, backgroundKind, weather>>

\* variant: the else branch of loadDefaultCity sets nothing
DefaultNotFoundKeepsLoading ==
    UNCHANGED <<units, searchQuery, searchMode, backgroundKind, fetchState, error, weather>>

\* the else branch of loadDefaultCity: no default city found
DefaultNotFound ==
    /\ fetchState' = "idle"
    /\ UNCHANGED <<units, searchQuery, searchMode, backgroundKind, error, weather>>

\* variant: a failed default-city load blanks the display
DefaultFailedClears(err) ==
    /\ fetchState' = "idle"
    /\ error' = Some(Str("Unable to load default city: ")
                     \o MsgOr(err.message, Str("Unknown error")))
    /\ weather' = None
    /\ backgroundKind' = "cloudy"
    /\ UNCHANGED <<units, searchQuery, searchMode>>

\* the catch block of loadDefaultCity
DefaultFailed(err) ==
    /\ fetchState' = "idle"
    /\ error' = Some(Str("Unable to load default city: ")
                     \o MsgOr(err.message, Str("Unknown error")))
    /\ UNCHANGED <<units, searchQuery, searchMode, backgroundKind, weather>>

\* loadDefaultCity resumes with the outcome r of geocodeCity('New York')
DefaultGeocoded(t, r) ==
    /\ t.kind = "default" /\ t.pc = "geocode"
    /\ IF ~r.ok THEN DefaultFailed(r) /\ Finish(t)
       ELSE IF r.value = None THEN DefaultNotFound /\ Finish(t)
       ELSE /\ UNCHANGED uiVars
            /\ Continue(t, [t EXCEPT !.pc = "fetch", !.geo = r.value,
                                     !.lat = Get(r.value).lat,
                                     !.lon = Get(r.value).lon])
    /\ UNCHANGED <<mounted, hasGeolocation>>

\* the statements of loadDefaultCity after fetchOneCall
DefaultSucceeded(geo, oneCall) ==
    /\ backgroundKind' = HeadKind(oneCall)
    /\ weather' = Some(Resolved(buildLocationLabel(Some(geo), Some(Str(geo.name))),
                                geo.country, oneCall))
    /\ fetchState' = "success"
    /\ UNCHANGED <<units, searchQuery, searchMode, error>>

\* loadDefaultCity resumes with the outcome r of fetchOneCall
DefaultFetched(t, r) ==
    /\ t.kind = "default" /\ t.pc = "fetch"
    /\ IF r.ok THEN DefaultSucceeded(Get(t.geo), r.value) ELSE DefaultFailed(r)
    /\ Finish(t)
    /\ UNCHANGED <<mounted, hasGeolocation>>

----------------------------------------------------------------------------
\* searchByCity

\* onChange of the search box: setSearchQuery(e.target.value)
SetSearchQuery(q) ==
    /\ mounted
    /\ searchQuery' = q
    /\ UNCHANGED <<units, searchMode, backgroundKind, fetchState, error, weather>>
    /\ NoTaskChange
    /\ UNCHANGED <<mounted, hasGeolocation>>

\* variant: the blank-query check comes after setFetchState('loading')
SearchBlankAfterLoading ==
    /\ fetchState' = "loading"
    /\ error' = Some(Str("Please enter a city name"))
    /\ UNCHANGED <<units, searchQuery, searchMode, backgroundKind, weather>>
    /\ NoTaskChange

\* the early return of searchByCity on a blank query
SearchBlank ==
    /\ error' = Some(Str("Please enter a city name"))
    /\ UNCHANGED <<units, searchQuery, searchMode, backgroundKind, fetchState, weather>>
    /\ NoTaskChange

\* searchByCity up to its first await
SearchByCity ==
    /\ mounted
    /\ IF Trim(searchQuery) = <<>>
       THEN SearchBlank
       ELSE /\ CanStart
            /\ fetchState' = "loading"
            /\ error' = None
            /\ UNCHANGED <<units, searchQuery, searchMode, backgroundKind, weather>>
            /\ Spawn([Task(nStarted + 1, "search", "geocode", units) EXCEPT
                        !.query = Trim(searchQuery)])
    /\ UNCHANGED <<mounted, hasGeolocation>>

\* variant: a search without results settles like the default-city fallback
SearchNotFoundIdle ==
    /\ fetchState' = "idle"
    /\ UNCHANGED <<units, searchQuery, searchMode, backgroundKind, error, weather>>

\* the !geo branch of searchByCity
SearchNotFound ==
    /\ fetchState' = "error"
    /\ error' = Some(Str("No results for that city. Try another name."))
    /\ UNCHANGED <<units, searchQuery, searchMode, backgroundKind, weather>>

\* variant: a failed search blanks the display
SearchFailedClears(err) ==
    /\ fetchState' = "error"
    /\ error' = Some(MsgOr(err.message, Str("Unable to fetch weather for that city.")))
    /\ weather' = None
    /\ backgroundKind' = "cloudy"
    /\ UNCHANGED <<units, searchQuery, searchMode>>

\* the catch block of searchByCity
SearchFailed(err) ==
    /\ fetchState' = "error"
    /\ error' = Some(MsgOr(err.message, Str("Unable to fetch weather for that city.")))
    /\ UNCHANGED <<units, searchQuery, searchMode, backgroundKind, weather>>

\* searchByCity resumes with the outcome r of geocodeCity
SearchGeocoded(t, r) ==
    /\ t.kind = "search" /\ t.pc = "geocode"
    /\ IF ~r.ok THEN SearchFailed(r) /\ Finish(t)
       ELSE IF r.value = None THEN SearchNotFound /\ Finish(t)
       ELSE /\ UNCHANGED uiVars
            /\ Continue(t, [t EXCEPT !.pc = "fetch", !.geo = r.value,
                                     !.lat = Get(r.value).lat,
                                     !.lon = Get(r.value).lon])
    /\ UNCHANGED <<mounted, hasGeolocation>>

\* variant: a successful search leaves the SearchMode tag alone
SearchSucceededKeepsMode(geo, oneCall) ==
    /\ backgroundKind' = HeadKind(oneCall)
    /\ weather' = Some(Resolved(buildLocationLabel(Some(geo), Some(Str(geo.name))),
                                geo.country, oneCall))
    /\ fetchState' = "success"
    /\ UNCHANGED <<units, searchQuery, searchMode, error>>

\* the statements of searchByCity after fetchOneCall
SearchSucceeded(geo, oneCall) ==
    /\ backgroundKind' = HeadKind(oneCall)
    /\ weather' = Some(Resolved(buildLocationLabel(Some(geo), Some(Str(geo.name))),
                                geo.country, oneCall))
    /\ fetchState' = "success"
    /\ searchMode' = "city"
    /\ UNCHANGED <<units, searchQuery, error>>

\* variant: a response older than the last one applied is dropped
SearchFetchedUnlessStale(t, r) ==
    /\ t.kind = "search" /\ t.pc = "fetch"
    /\ IF t.id < lastResolved.id THEN UNCHANGED uiVars
       ELSE IF r.ok THEN SearchSucceeded(Get(t.geo), r.value) ELSE SearchFailed(r)
    /\ Finish(t)
    /\ UNCHANGED <<mounted, hasGeolocation>>

\* searchByCity resumes with the outcome r of fetchOneCall
SearchFetched(t, r) ==
    /\ t.kind = "search" /\ t.pc = "fetch"
    /\ IF r.ok THEN SearchSucceeded(Get(t.geo), r.value) ELSE SearchFailed(r)
    /\ Finish(t)
    /\ UNCHANGED <<mounted, hasGeolocation>>

----------------------------------------------------------------------------
\* refreshWithGeo

\* variant: no check of navigator.geolocation
RefreshWithGeoUnchecked ==
    /\ mounted
    /\ CanStart
    /\ fetchState' = "loading"
    /\ error' = None
    /\ searchMode' = "geo"
    /\ UNCHANGED <<units, searchQuery, backgroundKind, weather>>
    /\ Spawn(Task(nStarted + 1, "refresh", "position", units))
    /\ UNCHANGED <<mounted, hasGeolocation>>

\* refreshWithGeo up to getCurrentPosition
RefreshWithGeo ==
    /\ mounted
    /\ IF ~hasGeolocation
       THEN /\ error' = Some(Str("Geolocation is not available in this browser."))
            /\ fetchState' = "error"
            /\ UNCHANGED <<units, searchQuery, searchMode, backgroundKind, weather>>
            /\ NoTaskChange
       ELSE /\ CanStart
            /\ fetchState' = "loading"
            /\ error' = None
            /\ searchMode' = "geo"
            /\ UNCHANGED <<units, searchQuery, backgroundKind, weather>>
            /\ Spawn(Task(nStarted + 1, "refresh", "position", units))
    /\ UNCHANGED <<mounted, hasGeolocation>>

\* the success callback of refreshWithGeo up to its await
RefreshPosition(t) ==
    /\ t.kind = "refresh" /\ t.pc = "position"
    /\ Continue(t, [t EXCEPT !.pc = "fetch",
                             !.lat = DeviceCoords.latitude,
                             !.lon = DeviceCoords.longitude])
    /\ UNCHANGED <<uiVars, mounted, hasGeolocation>>

\* the error callback of refreshWithGeo
RefreshPositionError(t, reason) ==
    /\ t.kind = "refresh" /\ t.pc = "position"
    /\ fetchState' = "error"
    /\ error' = Some(Str("Location access was denied."))
    /\ UNCHANGED <<units, searchQuery, searchMode, backgroundKind, weather>>
    /\ Finish(t)
    /\ UNCHANGED <<mounted, hasGeolocation>>

\* variant: the catch block sets Error and no message
RefreshFailedSilent ==
    /\ fetchState' = "error"
    /\ UNCHANGED <<units, searchQuery, searchMode, backgroundKind, error, weather>>

\* the catch block of the refresh success callback
RefreshFailed ==
    /\ fetchState' = "error"
    /\ error' = Some(Str("Unable to refresh weather for your location."))
    /\ UNCHANGED <<units, searchQuery, searchMode, backgroundKind, weather>>

\* variant: a refresh keeps the background chosen for the previous snapshot
RefreshSucceededKeepsBackground(oneCall) ==
    /\ weather' = Some(Resolved(buildLocationLabel(None, Some(Str("Current location"))),
                                None, oneCall))
    /\ fetchState' = "success"
    /\ UNCHANGED <<units, searchQuery, searchMode, backgroundKind, error>>

\* variant: Success is set and the snapshot is not stored
RefreshSucceededStateOnly(oneCall) ==
    /\ backgroundKind' = HeadKind(oneCall)
    /\ fetchState' = "success"
    /\ UNCHANGED <<units, searchQuery, searchMode, error, weather>>

\* the statements of the refresh success callback after fetchOneCall
RefreshSucceeded(oneCall) ==
    /\ backgroundKind' = HeadKind(oneCall)
    /\ weather' = Some(Resolved(buildLocationLabel(None, Some(Str("Current location"))),
                                None, oneCall))
    /\ fetchState' = "success"
    /\ UNCHANGED <<units, searchQuery, searchMode, error>>

\* the refresh success callback resumes with the outcome r of fetchOneCall
RefreshFetched(t, r) ==
    /\ t.kind = "refresh" /\ t.pc = "fetch"
    /\ IF r.ok THEN RefreshSucceeded(r.value) ELSE RefreshFailed
    /\ Finish(t)
    /\ UNCHANGED <<mounted, hasGeolocation>>

----------------------------------------------------------------------------
\* The outcomes the awaited helpers may resolve or reject with

\* the coordinate pairs and unit systems fetchOneCall is called with
FetchRequests ==
    { [lat |-> p.lat, lon |-> p.lon, units |-> u] :
         p \in {Paris, NewYork,
                [lat |-> DeviceCoords.latitude, lon |-> DeviceCoords.longitude]},
         u \in Units }

\* every way the two requests of one fetchOneCall may come back, with its outcome
FetchCases ==
    UNION { { [lat |-> q.lat, lon |-> q.lon, units |-> q.units,
               currentResp |-> currentResp, forecastResp |-> forecastResp,
               r |-> fetchOneCall(currentResp, forecastResp)] :
                 currentResp \in CurrentResponses(q.lat, q.lon, q.units),
                 forecastResp \in ForecastResponses(q.lat, q.lon, q.units) } :
            q \in FetchRequests }

\* the cases of the call a continuation awaits
FetchCasesOf(t) ==
    { x \in FetchCases : x.lat = t.lat /\ x.lon = t.lon /\ x.units = t.units }

\* outcomes of fetchOneCall(t.lat, t.lon, t.units)
FetchOutcomes(t) ==
    IF t.pc = "fetch" THEN { x.r : x \in FetchCasesOf(t) } ELSE {}

\* every way the request of geocodeCity(t.query) may come back, with its outcome
GeocodeCasesOf(t) ==
    { [resp |-> resp, r |-> geocodeCity(t.query, resp)] :
         resp \in GeocodeResponses(GeocodeRequest(t.query)) }

\* outcomes of geocodeCity(t.query)
GeocodeOutcomes(t) ==
    IF t.pc = "geocode" THEN { x.r : x \in GeocodeCasesOf(t) } ELSE {}

\* outcomes of reverseGeocode(t.lat, t.lon)
ReverseOutcomes(t) ==
    IF t.pc = "reverse"
    THEN { reverseGeocode(t.lat, t.lon, resp) : resp \in ReverseResponses(t.lat, t.lon) }
    ELSE {}

\* The event loop runs one handler or one continuation at a time

Next ==
    \/ Mount
    \/ \E q \in Queries : SetSearchQuery(q)
    \/ SearchByCity
    \/ RefreshWithGeo
    \/ \E next \in Units : HandleUnitsChange(next)
    \/ \E t \in tasks : StartPosition(t)
    \/ \E t \in tasks : \E reason \in PositionErrors(TRUE) : StartPositionError(t, reason)
    \/ \E t \in tasks : RefreshPosition(t)
    \/ \E t \in tasks : \E reason \in PositionErrors(FALSE) : RefreshPositionError(t, reason)
    \/ \E t \in tasks : \E r \in GeocodeOutcomes(t) :
          \/ DefaultGeocoded(t, r)
          \/ SearchGeocoded(t, r)
    \/ \E t \in tasks : \E geo \in ReverseOutcomes(t) : StartReversed(t, geo)
    \/ \E t \in tasks : \E r \in FetchOutcomes(t) :
          \/ StartFetched(t, r)
          \/ DefaultFetched(t, r)
          \/ SearchFetched(t, r)
          \/ RefreshFetched(t, r)
          \/ UnitsFetched(t, r)

Spec == Init /\ [][Next]_vars

\* the callbacks of getCurrentPosition and the continuations after each await
Callbacks ==
    \/ \E t \in tasks : StartPosition(t)
    \/ \E t \in tasks : \E reason \in PositionErrors(TRUE) : StartPositionError(t, reason)
    \/ \E t \in tasks : RefreshPosition(t)
    \/ \E t \in tasks : \E reason \in PositionErrors(FALSE) : RefreshPositionError(t, reason)
    \/ \E t \in tasks : \E r \in GeocodeOutcomes(t) :
          \/ DefaultGeocoded(t, r)
          \/ SearchGeocoded(t, r)
    \/ \E t \in tasks : \E geo \in ReverseOutcomes(t) : StartReversed(t, geo)
    \/ \E t \in tasks : \E r \in FetchOutcomes(t) :
          \/ StartFetched(t, r)
          \/ DefaultFetched(t, r)
          \/ SearchFetched(t, r)
          \/ RefreshFetched(t, r)
          \/ UnitsFetched(t, r)

\* every position request and every upstream call comes back: while a
\* resolution is in flight the event loop eventually runs one of its callbacks
SpecLive == Init /\ [][Next]_vars /\ WF_vars(Callbacks)

----------------------------------------------------------------------------
\* The daily aggregation of fetchWeatherFree on its own: forecastList in,
\* daily out, one iteration of its loop at a time

\* free samples at the head or the tail of a forecast list
MaxPrefix == 3
\* further days of a forecast list, one sample each
MaxTailDays == 8

\* epoch seconds of 2023-11-27T00:00:00Z: the lists run into December
FirstDayDt == 1701043200

\* second of the day, temp_min, temp_max, temp and condition of a sample
SampleVariants ==
    { [at |-> 0,     lo |-> 5, hi |-> 9,  temp |-> 7,
       wx |-> <<WeatherEntry(800, "Clear", "clear sky")>>],
      [at |-> 43200, lo |-> 2, hi |-> 6,  temp |-> 4,
       wx |-> <<WeatherEntry(500, "Rain", "light rain")>>],
      [at |-> 86399, lo |-> 4, hi |-> 12, temp |-> 10,
       wx |-> <<WeatherEntry(803, "Clouds", "broken clouds")>>] }

\* samples of the first two days
FreeSamples ==
    { ForecastItem(FirstDayDt + d * 86400 + v.at, v.temp, v.lo, v.hi, v.wx) :
         d \in 0..1, v \in SampleVariants }

SeqsUpTo(S, n) == UNION { [1..k -> S] : k \in 0..n }

\* one sample on each of the k days after the first two
TailDays(k) ==
    [i \in 1..k |->
        ForecastItem(FirstDayDt + (i + 1) * 86400 + 3600 * i, 10 + i, 8 + i, 12 + i,
                     <<WeatherEntry(600 + i, "Snow", "snow")>>)]

\* the provider's regular list: perDay 3-hour samples on each of days days
RegularList(days, perDay) ==
    [i \in 1..(days * perDay) |->
        ForecastItem(FirstDayDt + ((i - 1) \div perDay) * 86400
                        + (((i - 1) % perDay) * 10800),
                     ((i * 7) % 11), ((i * 7) % 11) - (i % 3), ((i * 7) % 11) + (i % 4),
                     <<WeatherEntry(800 + (i % 5), "Clouds", "clouds")>>)]

\* the forecast lists the aggregation is run on
SampleLists ==
    UNION { { p \o TailDays(k), TailDays(k) \o p } :
              p \in SeqsUpTo(FreeSamples, MaxPrefix),
              k \in {0} \cup ((MaxTailDays - 2)..MaxTailDays) }
    \cup { RegularList(3, 8), RegularList(5, 8) }

\* const dailyMap = new Map(), before the first iteration
AggregateInit ==
    /\ HookInit
    /\ hasGeolocation = FALSE
    /\ input \in { Some(l) : l \in SampleLists }
    /\ output = None
    /\ locals = Some([rest |-> Get(input), dailyMap |-> <<>>])

\* one iteration of for (const item of forecastList)
AggregateStep ==
    /\ locals /= None
    /\ Get(locals).rest /= <<>>
    /\ locals' = Some([rest |-> Tail(Get(locals).rest),
                       dailyMap |-> DailyStep(Get(locals).dailyMap,
                                              Head(Get(locals).rest))])
    /\ UNCHANGED <<hookVars, input, output>>

\* after the loop: const daily = Array.from(dailyMap.entries())...
AggregateEmit ==
    /\ locals /= None
    /\ Get(locals).rest = <<>>
    /\ output = None
    /\ output' = Some(DailyEntries(Get(locals).dailyMap))
    /\ UNCHANGED <<hookVars, input, locals>>

Aggregate == AggregateStep \/ AggregateEmit

SpecAggregate == AggregateInit /\ [][Aggregate]_vars

----------------------------------------------------------------------------
\* classifyBackground on its own: (main, weatherId) in, BackgroundKind out

\* condition codes 0..MaxWeatherId
MaxWeatherId == 900

\* WeatherMain: names the provider uses, and strings it does not
WeatherMains ==
    {"Clear", "Clouds", "Rain", "Drizzle", "Snow", "Thunderstorm", "Mist", "Tornado",
     "rain", ""}

ClassifyInit ==
    /\ HookInit
    /\ hasGeolocation = FALSE
    /\ locals = None
    /\ input \in { Some([main |-> main, weatherId |-> weatherId]) :
                       main \in WeatherMains, weatherId \in 0..MaxWeatherId }
    /\ output = None

Classify ==
    /\ input /= None
    /\ output = None
    /\ output' = Some(classifyBackground(Get(input).main, Get(input).weatherId))
    /\ UNCHANGED <<hookVars, input, locals>>

SpecClassify == ClassifyInit /\ [][Classify]_vars

----------------------------------------------------------------------------
\* fetchWeatherFree on its own: the two responses in, its outcome out

\* values of the cod field of a payload
PayloadCods ==
    { CodUndefined, CodNull, CodNumber(200), CodString("200"), CodNumber(0),
      CodNumber(201), CodNumber(404), CodString("404"), CodString(""), CodString("OK") }

\* values of the message field of a payload
PayloadMessages == { None, Some(""), Some("city not found") }

\* the timezone field of a /weather payload: absent, or an offset in seconds
CurrentTimezones == { None, Some(0), Some(3600) }

\* the city field of a /forecast payload: absent, without timezone, or with one
ForecastCities ==
    { None, Some([name |-> "New York"]), Some([timezone |-> 0]),
      Some([timezone |-> -18000]) }

\* /weather payloads: New York's, with the given cod, message and timezone
CurrentPayload(cod, message, tz) ==
    LET base == [CurrentBody(NewYork.lat, NewYork.lon, "metric", cod)
                    EXCEPT !.message = message]
    IN  IF tz = None THEN base ELSE base @@ [timezone |-> Get(tz)]

\* /forecast payloads with the given cod, city and list
ForecastPayload(cod, city, list) ==
    LET base == [cod |-> cod, message |-> Some("no forecast"), list |-> list]
    IN  IF city = None THEN base ELSE base @@ [city |-> Get(city)]

\* what the /weather request may come back with
CurrentProbes ==
    { NetFail,
      Http(401, [message |-> Some("Invalid API key")]),
      Http(500, [message |-> None]) }
    \cup { Http(200, CurrentPayload(cod, message, tz)) :
              cod \in PayloadCods, message \in PayloadMessages, tz \in CurrentTimezones }

\* what the /forecast request may come back with
ForecastProbes ==
    { NetFail,
      Http(500, [message |-> Some("Internal error")]) }
    \cup { Http(200, ForecastPayload(cod, city, list)) :
              cod \in {CodUndefined, CodNumber(200), CodString("200"), CodString("404")},
              city \in ForecastCities,
              list \in {<<>>, ForecastList(NewYork.lat, NewYork.lon, "metric")} }

FetchInit ==
    /\ HookInit
    /\ hasGeolocation = FALSE
    /\ locals = None
    /\ input \in { Some([currentResp |-> c, forecastResp |-> f]) :
                       c \in CurrentProbes, f \in ForecastProbes }
    /\ output = None

FetchWeather ==
    /\ input /= None
    /\ output = None
    /\ output' = Some(fetchWeatherFree(Get(input).currentResp, Get(input).forecastResp))
    /\ UNCHANGED <<hookVars, input, locals>>

SpecFetch == FetchInit /\ [][FetchWeather]_vars

----------------------------------------------------------------------------
\* Properties

\* a continuation of a fetch resumes with outcome r
FetchStep(t, r) ==
    \/ StartFetched(t, r)
    \/ DefaultFetched(t, r)
    \/ SearchFetched(t, r)
    \/ RefreshFetched(t, r)
    \/ UnitsFetched(t, r)

\* the current-conditions leg came back as a success
CurrentLegSucceeds(resp) == resp.net /\ RespOk(resp) /\ CodOk(CodOf(resp.body))

\* the forecast leg failed: transport, non-2xx, or a status field that is not 200
ForecastLegFails(resp) ==
    \/ ~resp.net
    \/ ~RespOk(resp)
    \/ ~CodOk(CodOf(resp.body))

\* the forecast leg came back but gave no usable samples
NoUsableSamples(resp) ==
    /\ resp.net
    /\ \/ ~CodOk(CodOf(resp.body))
       \/ "list" \notin DOMAIN resp.body
       \/ resp.body.list = <<>>

\* the result a fetch continuation holds after the step: the snapshot it wrote,
\* or for the mount effect the OneCallResponse it carries to reverseGeocode
FetchedResult(t) ==
    IF t.kind = "start"
    THEN Get((CHOOSE x \in tasks' : x.id = t.id).oneCall)
    ELSE Get(weather')

\* the one daily entry that restates current conditions
PromotedCurrent(current) ==
    << [dt |-> current.dt,
        temp |-> [min |-> current.temp, max |-> current.temp, day |-> current.temp],
        weather |-> current.weather] >>

\* C1: whenever the forecast leg fails in any way while the current-conditions
\* leg succeeds, the resolution goes on to Success and its daily sequence is the
\* single synthetic entry derived from current conditions.
C1_ForecastFailureIsSoft ==
    [][\A t \in tasks : (t.pc = "fetch" /\ t \notin tasks') =>
          \A x \in FetchCasesOf(t) :
             (/\ CurrentLegSucceeds(x.currentResp)
              /\ ForecastLegFails(x.forecastResp)
              /\ FetchStep(t, x.r))
             => /\ t.kind = "start" => \E y \in tasks' : y.id = t.id /\ y.pc = "reverse"
                /\ t.kind /= "start" => fetchState' = "success" /\ weather' /= None
                /\ FetchedResult(t).daily = PromotedCurrent(FetchedResult(t).current)
      ]_vars

\* C2: overlapping caller-initiated resolutions are neither cancelled nor
\* deduplicated, and each one applies its own result when its response arrives,
\* whatever was requested or applied before: the last response to resolve wins.
C2_LastResponseWins ==
    [][/\ nStarted' = nStarted + 1 =>
             tasks \subseteq tasks' /\ Cardinality(tasks') = Cardinality(tasks) + 1
       /\ \A t \in tasks :
             (t.pc = "fetch" /\ t \notin tasks' /\ t.kind \in {"search", "refresh", "units"}) =>
                \A x \in FetchCasesOf(t) :
                   FetchStep(t, x.r) =>
                      IF x.r.ok
                      THEN /\ fetchState' = "success"
                           /\ weather' /= None
                           /\ Get(weather').current = x.r.value.current
                           /\ Get(weather').daily = x.r.value.daily
                           /\ Get(weather').lat = t.lat
                           /\ Get(weather').lon = t.lon
                      ELSE /\ fetchState' = "error"
                           /\ error' /= None
      ]_vars

\* two resolutions overlapped, the one requested later finished first, and the
\* search requested earlier wrote the state that is displayed
C2_Witness ==
    /\ lastResolved.kind = "search"
    /\ fetchState = "success"
    /\ weather /= None
    /\ \E j \in 1..nStarted :
          j > lastResolved.id /\ \A t \in tasks : t.id /= j

\* C3: a unit change whose re-fetch fails ends in Error with the refresh
\* message, and leaves the snapshot and the BackgroundKind as they were.
C3_FailedUnitChangeKeepsSnapshot ==
    [][\A t \in tasks : (t.kind = "units" /\ t.pc = "fetch" /\ t \notin tasks') =>
          \A x \in FetchCasesOf(t) :
             (UnitsFetched(t, x.r) /\ ~x.r.ok)
             => /\ fetchState' = "error"
                /\ error' = Some(<<"Unable to refresh weather for the new unit.">>)
                /\ weather /= None
                /\ weather' = weather
                /\ backgroundKind' = backgroundKind
      ]_vars

\* a unit change has just failed and the snapshot is still displayed
C3_Witness ==
    /\ lastResolved.kind = "units"
    /\ fetchState = "error"
    /\ error = Some(<<"Unable to refresh weather for the new unit.">>)
    /\ weather /= None
    /\ tasks = {}

\* C4: searchByCity on an empty or whitespace-only query, in any state, keeps
\* the resolution state and the snapshot, issues no request, and sets the
\* enter-a-city-name message.
C4_BlankSearchRejected ==
    [][(Trim(searchQuery) = <<>> /\ SearchByCity)
       => /\ fetchState' = fetchState
          /\ weather' = weather
          /\ tasks' = tasks
          /\ nStarted' = nStarted
          /\ error' = Some(<<"Please enter a city name">>)
      ]_vars

\* a whitespace-only query was submitted while a resolution was loading
C4_Witness ==
    /\ searchQuery = <<" ", " ", " ">>
    /\ error = Some(<<"Please enter a city name">>)
    /\ fetchState = "loading"
    /\ tasks /= {}

\* C5: changeUnitSystem with the current unit system changes nothing and issues
\* no request, in every state.
C5_SameUnitIsNoOp ==
    [][\A next \in Units : (next = units /\ HandleUnitsChange(next)) => UNCHANGED vars]_vars

\* a snapshot is displayed in imperial units and a resolution could be started:
\* a request for another unit system would re-fetch here
C5_Witness ==
    /\ mounted
    /\ weather /= None
    /\ units = "imperial"
    /\ CanStart

\* C6: a snapshot's daily sequence is never empty, and when the forecast gives
\* no usable samples it is one entry whose timestamp, min, max, midday
\* temperature and condition are those of current conditions.
C6_DailyNeverEmpty ==
    /\ [](weather /= None => Len(Get(weather).daily) >= 1)
    /\ [][\A t \in tasks : (t.pc = "fetch" /\ t \notin tasks') =>
             \A x \in FetchCasesOf(t) :
                (FetchStep(t, x.r) /\ x.r.ok /\ NoUsableSamples(x.forecastResp))
                => FetchedResult(t).daily = PromotedCurrent(FetchedResult(t).current)
         ]_vars

\* a snapshot whose only daily entry restates its current conditions
C6_Witness ==
    /\ weather /= None
    /\ fetchState = "success"
    /\ Get(weather).daily = PromotedCurrent(Get(weather).current)

\* C7: when the default-place fallback's geocoding and fetch succeed, the state
\* is Success with the default place's snapshot and SearchMode City.
C7_DefaultFallbackIsCityMode ==
    [][\A t \in tasks : (t.kind = "default" /\ t.pc = "fetch" /\ t \notin tasks') =>
          \A x \in FetchCasesOf(t) :
             (DefaultFetched(t, x.r) /\ x.r.ok)
             => /\ fetchState' = "success"
                /\ weather' /= None
                /\ Get(weather').locationName = <<"New York", ", ", "US">>
                /\ Get(weather').lat = NewYork.lat
                /\ Get(weather').lon = NewYork.lon
                /\ searchMode' = "city"
      ]_vars

\* C8: when the geolocation capability is absent, the mount effect starts the
\* default-place fallback.
C8_NoGeolocationFallsBack ==
    [][(~mounted /\ mounted' /\ ~hasGeolocation)
       => \E t \in tasks' :
             t.kind = "default" /\ t.pc = "geocode" /\ t.query = DefaultCityQuery
      ]_vars

\* C9: when the default-place geocoding returns NotFound or fails, the fallback
\* ends in Idle and writes no snapshot (none is present when no other resolution
\* has finished), sets the explanatory message on a failure and sets none on
\* NotFound, and requests nothing further.
C9_FallbackEndsIdle ==
    [][\A t \in tasks : (t.kind = "default" /\ t.pc = "geocode" /\ t \notin tasks') =>
          \A x \in GeocodeCasesOf(t) :
             (DefaultGeocoded(t, x.r) /\ (~x.r.ok \/ x.r.value = None))
             => /\ fetchState' = "idle"
                /\ weather' = weather
                /\ lastResolved.id = 0 => weather' = None
                /\ x.r.ok => error' = error
                /\ ~x.r.ok =>
                      /\ error' /= None
                      /\ SubSeq(Get(error'), 1, 1) = <<"Unable to load default city: ">>
                      /\ SubSeq(Get(error'), 2, Len(Get(error'))) = Get(x.r.message)
                /\ tasks' = tasks \ {t}
                /\ nStarted' = nStarted
      ]_vars

\* the fallback found no default city: Idle, no snapshot, no message, nothing in flight
C9_Witness ==
    /\ lastResolved.kind = "default"
    /\ fetchState = "idle"
    /\ weather = None
    /\ error = None
    /\ tasks = {}

\* how a snapshot was obtained: device coordinates, or a place name
ObtainedBy(w) ==
    IF w.lat = DeviceCoords.latitude /\ w.lon = DeviceCoords.longitude
    THEN "geo" ELSE "city"

\* C10: whenever a snapshot is present, the SearchMode tag is the mode by which
\* that snapshot was obtained.
C10_SearchModeMatchesSnapshot ==
    weather /= None => searchMode = ObtainedBy(Get(weather))

\* classifyBackground of the first condition entry of a snapshot's current conditions
LeadKind(w) == classifyBackground(w.current.weather[1].main, w.current.weather[1].id)

\* C11: whenever the state is Success the BackgroundKind is classifyBackground
\* of the first condition entry of the displayed snapshot, and every
\* resolution that ends in Success sets it from the snapshot it writes.
C11_BackgroundFollowsSnapshot ==
    /\ [](fetchState = "success" =>
             weather /= None /\ backgroundKind = LeadKind(Get(weather)))
    /\ [][(lastResolved' /= lastResolved /\ fetchState' = "success")
           => weather' /= None /\ backgroundKind' = LeadKind(Get(weather'))
        ]_vars

\* a refresh from device coordinates ended in Success with the background of its snapshot
C11_Witness ==
    /\ lastResolved.kind = "refresh"
    /\ lastResolved.id = 2
    /\ fetchState = "success"
    /\ weather /= None
    /\ backgroundKind = "storm"

\* the snapshot w is built from the one fetch result v
FromOneFetch(w, v) ==
    /\ w.current = v.current
    /\ w.daily = v.daily
    /\ w.timezoneOffset = v.timezone_offset
    /\ w.lat = v.lat
    /\ w.lon = v.lon

\* C12: the snapshot is null until a resolution succeeds, and in every state it
\* is null or its current conditions, daily sequence, UTC offset and
\* coordinates are those of one and the same fetchOneCall result.
C12_SnapshotFromOneFetch ==
    /\ weather = None
    /\ [][(weather = None /\ weather' /= None)
           => lastResolved' /= lastResolved /\ fetchState' = "success"]_vars
    /\ [](weather /= None =>
             \E x \in FetchCases : x.r.ok /\ FromOneFetch(Get(weather), x.r.value))

\* a unit change has replaced a metric snapshot by an imperial one
C12_Witness ==
    /\ lastResolved.kind = "units"
    /\ fetchState = "success"
    /\ units = "imperial"
    /\ weather /= None
    /\ Get(weather).current.temp = InUnits(CelsiusAt(Get(weather).lat, Get(weather).lon), "imperial")

\* C20: searchByCity on a non-blank query enters Loading, and when its
\* geocoding returns zero results it ends in Error with the no-results message
\* without any fetchOneCall request for that search.
C20_NoResultsIsError ==
    [][/\ (Trim(searchQuery) /= <<>> /\ SearchByCity) =>
             /\ fetchState' = "loading"
             /\ \E t \in tasks' \ tasks :
                   t.kind = "search" /\ t.pc = "geocode" /\ t.query = Trim(searchQuery)
       /\ \A t \in tasks : (t.kind = "search" /\ t.pc = "geocode" /\ t \notin tasks') =>
             \A x \in GeocodeCasesOf(t) :
                (/\ x.resp.net /\ RespOk(x.resp) /\ x.resp.body = <<>>
                 /\ SearchGeocoded(t, x.r))
                => /\ fetchState' = "error"
                   /\ error' = Some(<<"No results for that city. Try another name.">>)
                   /\ weather' = weather
                   /\ tasks' = tasks \ {t}
                   /\ nStarted' = nStarted
      ]_vars

\* a search found no place: Error, the no-results message, nothing in flight
C20_Witness ==
    /\ lastResolved.kind = "search"
    /\ fetchState = "error"
    /\ error = Some(<<"No results for that city. Try another name.">>)
    /\ weather = None
    /\ tasks = {}

\* C21: a search on a non-blank query enters Loading with the error message
\* cleared and awaits geocodeCity; only a geocoded place takes it on to
\* fetchOneCall, called with that place's coordinates; a successful fetch ends
\* in Success with SearchMode city and the snapshot of the geocoded place,
\* the message staying as it was (cleared, when the search ran alone).
C21_SearchResolvesGeocodedPlace ==
    /\ [](\A t \in tasks : (t.kind = "search" /\ t.pc = "fetch") =>
             /\ t.geo /= None
             /\ t.lat = Get(t.geo).lat
             /\ t.lon = Get(t.geo).lon)
    /\ [][/\ (Trim(searchQuery) /= <<>> /\ SearchByCity) =>
                /\ fetchState' = "loading"
                /\ error' = None
                /\ \A t \in tasks' \ tasks : t.kind = "search" /\ t.pc = "geocode"
          /\ \A t \in tasks : (t.kind = "search" /\ t \notin tasks') =>
                /\ t.pc = "geocode" => \A x \in GeocodeCasesOf(t) :
                      (SearchGeocoded(t, x.r) /\ x.r.ok /\ x.r.value /= None)
                      => /\ \E n \in tasks' :
                               /\ n.id = t.id /\ n.pc = "fetch"
                               /\ n.lat = Get(x.r.value).lat
                               /\ n.lon = Get(x.r.value).lon
                               /\ n.units = t.units
                         /\ UNCHANGED uiVars
                /\ t.pc = "fetch" => \A x \in FetchCasesOf(t) :
                      (SearchFetched(t, x.r) /\ x.r.ok)
                      => /\ fetchState' = "success"
                         /\ searchMode' = "city"
                         /\ weather' /= None
                         /\ Get(weather').lat = Get(t.geo).lat
                         /\ Get(weather').lon = Get(t.geo).lon
                         /\ Get(weather').locationName
                               = buildLocationLabel(t.geo, None)
                         /\ Get(weather').countryCode = Get(t.geo).country
                         /\ Get(weather').current = x.r.value.current
                         /\ Get(weather').daily = x.r.value.daily
                         /\ error' = error
         ]_vars

\* the only resolution of a run, a search for Paris, ended in Success
C21_Witness ==
    /\ nStarted = 1
    /\ lastResolved = [id |-> 1, kind |-> "search"]
    /\ fetchState = "success"
    /\ searchMode = "city"
    /\ error = None
    /\ weather /= None
    /\ Get(weather).locationName = <<"Paris", ", ", "Ile-de-France", ", ", "FR">>
    /\ Get(weather).lat = Paris.lat

\* C22: a search whose geocoding or fetch throws ends in Error with the thrown
\* message, and leaves the snapshot, the BackgroundKind and the SearchMode as
\* they were; it requests nothing further.
C22_FailedSearchKeepsDisplay ==
    [][\A t \in tasks : (t.kind = "search" /\ t \notin tasks') =>
          /\ t.pc = "geocode" => \A x \in GeocodeCasesOf(t) :
                (SearchGeocoded(t, x.r) /\ ~x.r.ok)
                => /\ fetchState' = "error"
                   /\ error' = x.r.message
                   /\ x.r.message /= None
                   /\ UNCHANGED <<weather, backgroundKind, searchMode>>
                   /\ tasks' = tasks \ {t}
          /\ t.pc = "fetch" => \A x \in FetchCasesOf(t) :
                (SearchFetched(t, x.r) /\ ~x.r.ok)
                => /\ fetchState' = "error"
                   /\ error' = x.r.message
                   /\ x.r.message /= None
                   /\ UNCHANGED <<weather, backgroundKind, searchMode>>
                   /\ tasks' = tasks \ {t}
      ]_vars

\* a search failed on the provider's rate limit while a snapshot from the
\* device's position stayed on display
C22_Witness ==
    /\ lastResolved.kind = "search"
    /\ fetchState = "error"
    /\ error = Some(<<"limit reached">>)
    /\ weather /= None
    /\ Get(weather).lat = DeviceCoords.latitude
    /\ searchMode = "geo"
    /\ backgroundKind = "storm"

\* C23: handleUnitsChange(next) with next different from the current unit
\* system and no snapshot only stores next: no continuation is started, and
\* fetchState, the error message and the snapshot are unchanged.
C23_UnitChangeWithoutSnapshot ==
    [][\A next \in Units :
          (next /= units /\ weather = None /\ HandleUnitsChange(next)) =>
             /\ units' = next
             /\ tasks' = tasks
             /\ nStarted' = nStarted
             /\ UNCHANGED <<fetchState, error, weather, searchMode, backgroundKind>>
      ]_vars

\* the unit system was changed before anything was resolved
C23_Witness ==
    /\ mounted
    /\ units = "imperial"
    /\ weather = None
    /\ nStarted = 0
    /\ fetchState = "idle"

\* C24: handleUnitsChange(next) with a snapshot starts exactly one
\* fetchOneCall, at the snapshot's coordinates and with next, and no geocoding;
\* when it succeeds the snapshot's current conditions, daily sequence, offset
\* and coordinates are those of that fetch, and the label, the country code and
\* searchMode are the ones from before.
C24_UnitChangeRefetches ==
    [][/\ \A next \in Units :
             (next /= units /\ weather /= None /\ HandleUnitsChange(next)) =>
                /\ units' = next
                /\ nStarted' = nStarted + 1
                /\ tasks \subseteq tasks'
                /\ Cardinality(tasks' \ tasks) = 1
                /\ \A n \in tasks' \ tasks :
                      /\ n.kind = "units" /\ n.pc = "fetch"
                      /\ n.lat = Get(weather).lat /\ n.lon = Get(weather).lon
                      /\ n.units = next
                      /\ n.label = Get(weather).locationName
                      /\ n.countryCode = Get(weather).countryCode
                /\ weather' = weather
       /\ \A t \in tasks : (t.kind = "units" /\ t \notin tasks') =>
             /\ t.pc = "fetch"
             /\ \A x \in FetchCasesOf(t) :
                   (UnitsFetched(t, x.r) /\ x.r.ok) =>
                      /\ weather' /= None
                      /\ Get(weather').current = x.r.value.current
                      /\ Get(weather').daily = x.r.value.daily
                      /\ Get(weather').timezoneOffset = x.r.value.timezone_offset
                      /\ Get(weather').lat = x.r.value.lat
                      /\ Get(weather').lon = x.r.value.lon
                      /\ Get(weather').current.temp = InUnits(CelsiusAt(t.lat, t.lon), t.units)
                      /\ Get(weather').locationName = t.label
                      /\ Get(weather').countryCode = t.countryCode
                      /\ searchMode' = searchMode
                      /\ fetchState' = "success"
                      /\ tasks' = tasks \ {t}
                      /\ nStarted' = nStarted
      ]_vars

\* a searched city is shown in imperial units under the label of the search
C24_Witness ==
    /\ lastResolved = [id |-> 2, kind |-> "units"]
    /\ fetchState = "success"
    /\ units = "imperial"
    /\ searchMode = "city"
    /\ weather /= None
    /\ Get(weather).locationName = <<"Paris", ", ", "Ile-de-France", ", ", "FR">>
    /\ Get(weather).countryCode = Paris.country
    /\ Get(weather).lat = Paris.lat
    /\ Get(weather).current.temp = InUnits(CelsiusAt(Paris.lat, Paris.lon), "imperial")

\* C25: refreshWithGeo without navigator.geolocation sets Error and the
\* not-available message at once: Loading is not entered, no continuation is
\* started, and the snapshot is unchanged.
C25_RefreshWithoutGeolocation ==
    [][(~hasGeolocation /\ RefreshWithGeo) =>
          /\ fetchState' = "error"
          /\ error' = Some(<<"Geolocation is not available in this browser.">>)
          /\ tasks' = tasks
          /\ nStarted' = nStarted
          /\ UNCHANGED <<weather, searchMode, backgroundKind>>
      ]_vars

\* a refresh was refused while a searched city is displayed
C25_Witness ==
    /\ ~hasGeolocation
    /\ fetchState = "error"
    /\ error = Some(<<"Geolocation is not available in this browser.">>)
    /\ weather /= None
    /\ searchMode = "city"
    /\ tasks = {}

\* C26: the mount effect with navigator.geolocation enters Loading with
\* searchMode geo and asks for the position; once the position is known it
\* awaits fetchOneCall at the device coordinates. A failed fetch ends the
\* resolution in Error with the thrown message followed by the suggestion to
\* search for a city, the snapshot untouched (null when nothing else was
\* started); a successful one, after reverseGeocode, ends in Success with the
\* snapshot built from that fetch and the place label, searchMode still geo
\* when nothing else was started.
C26_StartResolvesDevicePosition ==
    [][/\ (hasGeolocation /\ Mount) =>
             /\ fetchState' = "loading"
             /\ searchMode' = "geo"
             /\ \A n \in tasks' \ tasks : n.kind = "start" /\ n.pc = "position"
       /\ \A t \in tasks : (t.kind = "start" /\ t \notin tasks') =>
             /\ (t.pc = "position" /\ StartPosition(t)) =>
                   /\ \E n \in tasks' : /\ n.id = t.id /\ n.kind = "start" /\ n.pc = "fetch"
                                        /\ n.lat = DeviceCoords.latitude
                                        /\ n.lon = DeviceCoords.longitude
                   /\ UNCHANGED uiVars
             /\ t.pc = "fetch" => \A x \in FetchCasesOf(t) :
                   StartFetched(t, x.r) =>
                      IF x.r.ok
                      THEN /\ \E n \in tasks' : /\ n.id = t.id /\ n.pc = "reverse"
                                               /\ n.oneCall = Some(x.r.value)
                           /\ UNCHANGED uiVars
                      ELSE /\ fetchState' = "error"
                           /\ error' /= None
                           /\ Get(error') = MsgOr(x.r.message, <<"Unable to get weather for your location.">>)
                                               \o <<" Please search for a city instead.">>
                           /\ Get(error')[Len(Get(error'))] = " Please search for a city instead."
                           /\ weather' = weather
                           /\ nStarted = 1 => weather' = None
                           /\ tasks' = tasks \ {t}
             /\ \A geo \in ReverseOutcomes(t) :
                   (t.pc = "reverse" /\ StartReversed(t, geo)) =>
                      /\ fetchState' = "success"
                      /\ weather' /= None
                      /\ Get(weather').current = Get(t.oneCall).current
                      /\ Get(weather').daily = Get(t.oneCall).daily
                      /\ Get(weather').timezoneOffset = Get(t.oneCall).timezone_offset
                      /\ Get(weather').lat = DeviceCoords.latitude
                      /\ Get(weather').lon = DeviceCoords.longitude
                      /\ Get(weather').locationName
                            = buildLocationLabel(geo, Some(<<"Current location">>))
                      /\ nStarted = 1 => searchMode' = "geo"
                      /\ tasks' = tasks \ {t}
      ]_vars

\* the application started, the device gave its position, and the weather of
\* the place it names is displayed
C26_Witness ==
    /\ nStarted = 1
    /\ lastResolved = [id |-> 1, kind |-> "start"]
    /\ fetchState = "success"
    /\ searchMode = "geo"
    /\ error = None
    /\ weather /= None
    /\ Get(weather).locationName = <<"Bengaluru", ", ", "IN">>
    /\ Get(weather).lat = DeviceCoords.latitude

\* what reverseGeocode is answered with when no place comes back
NoPlaceResponses(lat, lon) ==
    { resp \in ReverseResponses(lat, lon) :
         ~resp.net \/ ~RespOk(resp) \/ "body" \notin DOMAIN resp \/ resp.body = <<>> }

\* C27: when the fetch of a device position has succeeded, every answer to
\* reverseGeocode other than a place (transport failure, non-2xx status, a
\* body that does not parse, an empty list) becomes null and raises nothing:
\* the resolution ends in Success under the label 'Current location', without
\* a country code, and the error message is not written.
C27_ReverseLookupIsCosmetic ==
    [][\A t \in tasks : (t.kind = "start" /\ t.pc = "reverse" /\ t \notin tasks') =>
          \A resp \in NoPlaceResponses(t.lat, t.lon) :
             /\ reverseGeocode(t.lat, t.lon, resp) = None
             /\ StartReversed(t, reverseGeocode(t.lat, t.lon, resp)) =>
                   /\ fetchState' = "success"
                   /\ error' = error
                   /\ weather' /= None
                   /\ Get(weather').locationName = <<"Current location">>
                   /\ Get(weather').countryCode = None
                   /\ Get(weather').current = Get(t.oneCall).current
                   /\ Get(weather').daily = Get(t.oneCall).daily
      ]_vars

\* the device position was resolved and no place was found for it
C27_Witness ==
    /\ lastResolved.kind = "start"
    /\ fetchState = "success"
    /\ weather /= None
    /\ Get(weather).locationName = <<"Current location">>
    /\ Get(weather).countryCode = None
    /\ Get(weather).lat = DeviceCoords.latitude

\* the order of the awaits of one resolution
PcRank(pc) ==
    CASE pc = "position" -> 0
      [] pc = "geocode" -> 1
      [] pc = "fetch" -> 2
      [] pc = "reverse" -> 3

\* the handlers a caller invokes
IntentStep ==
    \/ Mount
    \/ SearchByCity
    \/ RefreshWithGeo
    \/ \E next \in Units : HandleUnitsChange(next)

\* C28: nothing is retried. A resolution is only started by an intent, one per
\* invocation; each resolution awaits its position request, its geocoding, its
\* fetch and its reverse geocoding at most once, in that order; and a
\* resolution that has ended, failed or not, never asks for anything again.
C28_NoAutomaticRetry ==
    /\ [](\A t \in tasks : t.id \in 1..nStarted)
    /\ [](\A t, u \in tasks : t.id = u.id => t = u)
    /\ [][/\ nStarted' /= nStarted => (nStarted' = nStarted + 1 /\ IntentStep)
          /\ \A n \in tasks' :
                \/ n.id = nStarted + 1 /\ nStarted' = nStarted + 1
                \/ \E t \in tasks :
                      /\ t.id = n.id
                      /\ n = t \/ PcRank(n.pc) > PcRank(t.pc)
          /\ (fetchState' = "error" /\ lastResolved' /= lastResolved) =>
                /\ nStarted' = nStarted
                /\ tasks' \subseteq tasks
                /\ \A n \in tasks' : n.id /= lastResolved'.id
         ]_vars

\* a refresh failed and nothing is in flight afterwards
C28_Witness ==
    /\ lastResolved = [id |-> nStarted, kind |-> "refresh"]
    /\ fetchState = "error"
    /\ error = Some(<<"Unable to refresh weather for your location.">>)
    /\ tasks = {}

\* C29: refreshWithGeo re-runs the device-position path of the mount effect:
\* a refused or timed-out position request falls back to the default city, a
\* failed fetch reports the thrown message with the suggestion to search, and
\* a successful one is labelled with the place reverseGeocode names.
C29_RefreshReRunsStartPath ==
    [][\A t \in tasks : (t.kind = "refresh" /\ t \notin tasks') =>
          /\ \A reason \in PositionErrors(FALSE) :
                (t.pc = "position" /\ RefreshPositionError(t, reason)) =>
                   /\ fetchState' = "loading"
                   /\ error' = error
                   /\ \E n \in tasks' : /\ n.id = t.id /\ n.pc = "geocode"
                                        /\ n.query = DefaultCityQuery
          /\ \A x \in FetchCasesOf(t) :
                (t.pc = "fetch" /\ RefreshFetched(t, x.r)) =>
                   IF x.r.ok
                   THEN \A geo \in ReverseOutcomes([t EXCEPT !.pc = "reverse"]) :
                           /\ Get(weather').locationName
                                 = buildLocationLabel(geo, Some(<<"Current location">>))
                           /\ Get(weather').countryCode
                                 = (IF geo = None THEN None ELSE Get(geo).country)
                   ELSE /\ fetchState' = "error"
                        /\ Get(error') = MsgOr(x.r.message, <<"Unable to get weather for your location.">>)
                                            \o <<" Please search for a city instead.">>
      ]_vars

\* C31: whenever a snapshot is displayed and no resolution is in flight, its
\* values are the provider's for the unit system now stored in units.
C31_SnapshotInStoredUnits ==
    (weather /= None /\ tasks = {}) =>
       Get(weather).current.temp
          = InUnits(CelsiusAt(Get(weather).lat, Get(weather).lon), units)

\* C32: fetchState is loading whenever some resolution is in flight.
C32_LoadingWhilePending ==
    tasks /= {} => fetchState = "loading"

\* the snapshots a successful search for Paris can write
SearchedSnapshots ==
    { Resolved(buildLocationLabel(Some(Paris), None), Paris.country, x.r.value) :
         x \in { y \in FetchCases : y.lat = Paris.lat /\ y.lon = Paris.lon /\ y.r.ok } }

\* snapshot w of a search is displayed, n resolutions were started, and the only
\* one in flight is the mount effect's, still waiting for the device position
SearchEndedBeforePosition(w, n) ==
    /\ weather = Some(w)
    /\ fetchState = "success"
    /\ lastResolved.kind = "search"
    /\ nStarted = n
    /\ \E t \in tasks : /\ tasks = {t}
                        /\ t.kind = "start"
                        /\ t.pc = "position"

\* C33: a snapshot written by a search that ended while the position request
\* of the mount effect was still pending is not replaced when that resolution
\* (device position or default city) ends afterwards, and fetchState is not
\* moved to idle or error by it: as long as no further resolution is started,
\* the snapshot stays and fetchState is neither idle nor error.
C33_SearchOutlivesStart ==
    \A w \in SearchedSnapshots : \A n \in 1..MaxResolutions :
       [](SearchEndedBeforePosition(w, n) =>
             [](nStarted = n => /\ weather = Some(w)
                                /\ fetchState \notin {"idle", "error"}))

\* C34: when every position request and every upstream call comes back, every
\* Loading state is followed by Success, Error or Idle, that is, fetchState
\* is again and again other than loading; Loading is shown only while a
\* resolution is in flight.
C34_LoadingEnds ==
    /\ [](fetchState = "loading" => tasks /= {})
    /\ []<>(fetchState /= "loading")

\* the default-city fallback found no place and left Loading for Idle
C34_Witness ==
    /\ lastResolved.kind = "default"
    /\ fetchState = "idle"
    /\ error = None
    /\ tasks = {}

\* the places a resolution can resolve: the geocoded cities, the device's
\* position under the name the reverse lookup gives, and the device's position
\* without a name
ResolvedPlaces ==
    { [lat |-> p.lat, lon |-> p.lon,
       locationName |-> buildLocationLabel(Some(p), None),
       countryCode |-> p.country] : p \in {Paris, NewYork, DevicePlace} }
    \cup { [lat |-> DeviceCoords.latitude, lon |-> DeviceCoords.longitude,
            locationName |-> <<"Current location">>, countryCode |-> None] }

C36_SnapshotSurvivesFailures ==
    [][/\ weather /= None => weather' /= None
       /\ (weather' /= weather \/ backgroundKind' /= backgroundKind) =>
             /\ fetchState' = "success"
             /\ lastResolved' /= lastResolved
       /\ (lastResolved' /= lastResolved /\ fetchState' \in {"error", "idle"}) =>
             UNCHANGED <<weather, backgroundKind>>
      ]_vars

\* the default-city load failed after a search had put Paris on display
C36_Witness ==
    /\ lastResolved.kind = "default"
    /\ fetchState = "idle"
    /\ error /= None
    /\ weather /= None
    /\ Get(weather).lat = Paris.lat
    /\ backgroundKind = "sunny"

\* C37: in every state, Success implies that a snapshot is present.
C37_SuccessHasSnapshot ==
    fetchState = "success" => weather /= None

\* a refresh from the device position ended in Success with its snapshot
C37_Witness ==
    /\ lastResolved = [id |-> 2, kind |-> "refresh"]
    /\ fetchState = "success"
    /\ weather /= None
    /\ Get(weather).locationName = <<"Current location">>
    /\ Get(weather).lat = DeviceCoords.latitude

\* C38: in every state, Error implies that the error message is not null.
C38_ErrorHasMessage ==
    fetchState = "error" => (error /= None /\ Get(error) /= <<>>)

\* a refused position request of a refresh left Error and its message while
\* another resolution is still in flight
C38_Witness ==
    /\ fetchState = "error"
    /\ error = Some(<<"Location access was denied.">>)
    /\ tasks /= {}

----------------------------------------------------------------------------
\* Properties of the daily aggregation

\* the UTC calendar day of a timestamp, as days since the epoch
UtcDayOf(dt) == dt \div 86400

\* positions of the samples of one UTC day
SamplesOfDay(list, day) == { j \in 1..Len(list) : UtcDayOf(list[j].dt) = day }

SetMin(S) == CHOOSE m \in S : \A x \in S : m <= x
SetMax(S) == CHOOSE m \in S : \A x \in S : m >= x

\* the distinct UTC days of a list
DaysOf(list) == { UtcDayOf(list[j].dt) : j \in 1..Len(list) }

\* the position at which a day of the list is first seen
FirstSeenAt(list, day) == SetMin(SamplesOfDay(list, day))

\* C13: each daily summary's min is the minimum of temp_min, and its max the
\* maximum of temp_max, over all samples of its UTC day.
C13_DailyRangeIsExact ==
    (input /= None /\ output /= None) =>
       LET list == Get(input)
           daily == Get(output)
       IN  \A i \in 1..Len(daily) :
              LET S == SamplesOfDay(list, UtcDayOf(daily[i].dt))
              IN  /\ S /= {}
                  /\ daily[i].temp.min = SetMin({ list[j].main.temp_min : j \in S })
                  /\ daily[i].temp.max = SetMax({ list[j].main.temp_max : j \in S })

\* a day of three samples whose lowest temp_min is neither the first's nor the last's
C13_Witness ==
    /\ input /= None /\ output /= None
    /\ \E i \in 1..Len(Get(output)) :
          LET list == Get(input)
              S == SamplesOfDay(list, UtcDayOf(Get(output)[i].dt))
              first == SetMin(S)
              last == SetMax(S)
          IN  /\ Cardinality(S) = 3
              /\ Get(output)[i].temp.min < list[first].main.temp_min
              /\ Get(output)[i].temp.min < list[last].main.temp_min

\* C14: the aggregation yields one summary per distinct UTC day, in the order
\* the days are first seen, cut to the first 8; an empty list yields none.
C14_OnePerDayFirstEight ==
    (input /= None /\ output /= None) =>
       LET list == Get(input)
           daily == Get(output)
           days == DaysOf(list)
           kept == { UtcDayOf(daily[i].dt) : i \in 1..Len(daily) }
       IN  /\ Len(daily) = (IF Cardinality(days) < 8 THEN Cardinality(days) ELSE 8)
           /\ kept \subseteq days
           /\ \A i, j \in 1..Len(daily) :
                 i < j => FirstSeenAt(list, UtcDayOf(daily[i].dt))
                             < FirstSeenAt(list, UtcDayOf(daily[j].dt))
           /\ \A d \in days \ kept : \A e \in kept :
                 FirstSeenAt(list, e) < FirstSeenAt(list, d)
           /\ list = <<>> => daily = <<>>

\* a list of more than 8 days, not in calendar order, was cut to 8 summaries
C14_Witness ==
    /\ input /= None /\ output /= None
    /\ Cardinality(DaysOf(Get(input))) > 8
    /\ Len(Get(output)) = 8
    /\ Get(output)[1].dt > Get(output)[8].dt

\* C15: a daily summary's midday temperature and condition are those of the
\* last sample of its UTC day in arrival order.
C15_LastSampleOfDayWins ==
    (input /= None /\ output /= None) =>
       LET list == Get(input)
           daily == Get(output)
       IN  \A i \in 1..Len(daily) :
              LET last == SetMax(SamplesOfDay(list, UtcDayOf(daily[i].dt)))
              IN  /\ daily[i].temp.day = list[last].main.temp
                  /\ daily[i].weather = list[last].weather

\* a day of several samples whose first and last differ in temperature and condition
C15_Witness ==
    /\ input /= None /\ output /= None
    /\ \E i \in 1..Len(Get(output)) :
          LET list == Get(input)
              S == SamplesOfDay(list, UtcDayOf(Get(output)[i].dt))
          IN  /\ Cardinality(S) >= 2
              /\ list[SetMin(S)].main.temp /= list[SetMax(S)].main.temp
              /\ list[SetMin(S)].weather /= list[SetMax(S)].weather
              /\ Get(output)[i].temp.day = list[SetMax(S)].main.temp

\* C30: a daily summary's timestamp is that of the first sample of its UTC day
\* in arrival order: later samples of the day, which replace the midday
\* temperature and the condition, leave it as it is.
C30_FirstTimestampKept ==
    /\ []((input /= None /\ output /= None) =>
            LET list == Get(input)
                daily == Get(output)
            IN  \A i \in 1..Len(daily) :
                   daily[i].dt = list[FirstSeenAt(list, UtcDayOf(daily[i].dt))].dt)
    /\ [][(locals /= None /\ locals' /= None) =>
             \A i \in 1..Len(Get(locals).dailyMap) :
                /\ i <= Len(Get(locals').dailyMap)
                /\ Get(locals').dailyMap[i].v.dt = Get(locals).dailyMap[i].v.dt
         ]_vars

\* a day of several samples: the summary has the first one's timestamp and the
\* last one's temperature
C30_Witness ==
    /\ input /= None /\ output /= None
    /\ \E i \in 1..Len(Get(output)) :
          LET list == Get(input)
              S == SamplesOfDay(list, UtcDayOf(Get(output)[i].dt))
          IN  /\ Cardinality(S) >= 2
              /\ list[SetMin(S)].dt /= list[SetMax(S)].dt
              /\ list[SetMin(S)].main.temp /= list[SetMax(S)].main.temp
              /\ Get(output)[i].dt = list[SetMin(S)].dt
              /\ Get(output)[i].temp.day = list[SetMax(S)].main.temp

----------------------------------------------------------------------------
\* Properties of classifyBackground

\* C16: for every weatherMain, classifyBackground gives storm for every code
\* in [200,300), sunny for 800, 801 and 802, and cloudy for 803 and 804.
C16_NumericCodesDecide ==
    (input /= None /\ output /= None) =>
       LET code == Get(input).weatherId
       IN  /\ (code >= 200 /\ code < 300) => Get(output) = "storm"
           /\ code \in {800, 801, 802} => Get(output) = "sunny"
           /\ code \in {803, 804} => Get(output) = "cloudy"

\* a thunderstorm code reported under the name Snow is classified storm
C16_Witness ==
    /\ input = Some([main |-> "Snow", weatherId |-> 299])
    /\ output = Some("storm")

\* the precedence table classifyBackground is specified by
ReferenceKind(code, main) ==
    CASE code \in 200..299 -> "storm"
      [] code \in 600..699 -> "snow"
      [] code \in 500..599 -> "rain"
      [] code \in 800..802 -> "sunny"
      [] code \in 803..804 -> "cloudy"
      [] OTHER ->
           CASE main = "Drizzle" \/ main = "Rain" -> "rain"
             [] main = "Snow" -> "snow"
             [] main = "Thunderstorm" -> "storm"
             [] OTHER -> "cloudy"

\* C17: classifyBackground is total and agrees with the reference precedence
\* on every (code, weatherMain) pair; the textual rules apply only when no
\* numeric rule matches.
C17_AgreesWithReference ==
    /\ input /= None => ENABLED Classify \/ output /= None
    /\ (input /= None /\ output /= None) =>
          /\ Get(output) \in {"sunny", "cloudy", "rain", "snow", "storm"}
          /\ Get(output) = ReferenceKind(Get(input).weatherId, Get(input).main)

\* a code no numeric rule matches was classified by its name
C17_Witness ==
    /\ input = Some([main |-> "Thunderstorm", weatherId |-> 741])
    /\ output = Some("storm")

----------------------------------------------------------------------------
\* Properties of fetchWeatherFree

\* a response came back with a 2xx status
Came2xx(resp) == resp.net /\ resp.status \in 200..299

\* the status field is absent, the number 200 or the string "200"
StatusPermitted(body) ==
    \/ "cod" \notin DOMAIN body
    \/ body.cod = CodUndefined
    \/ body.cod = CodNumber(200)
    \/ body.cod = CodString("200")

C19_OffsetPrecedence ==
    (input /= None /\ output /= None /\ Get(output).ok) =>
       LET current == Get(input).currentResp.body
           forecast == Get(input).forecastResp.body
       IN  Get(output).value.timezone_offset =
              CASE "timezone" \in DOMAIN current -> current.timezone
                [] /\ "timezone" \notin DOMAIN current
                   /\ "city" \in DOMAIN forecast
                   /\ "timezone" \in DOMAIN forecast.city -> forecast.city.timezone
                [] OTHER -> 0

\* a current-conditions offset of 0 was kept although the forecast carries another
C19_Witness ==
    /\ input /= None /\ output /= None /\ Get(output).ok
    /\ "timezone" \in DOMAIN Get(input).currentResp.body
    /\ Get(input).currentResp.body.timezone = 0
    /\ "city" \in DOMAIN Get(input).forecastResp.body
    /\ "timezone" \in DOMAIN Get(input).forecastResp.body.city
    /\ Get(input).forecastResp.body.city.timezone = -18000
    /\ Get(output).value.timezone_offset = 0

\* temp_min <= temp <= temp_max in a forecast sample
SampleOrdered(item) ==
    /\ item.main.temp_min <= item.main.temp
    /\ item.main.temp <= item.main.temp_max

\* C39: when every forecast sample has temp_min <= temp <= temp_max, every
\* daily summary of the result, aggregated from the samples or built from
\* current conditions, has min <= day <= max.
C39_DailyRangeHoldsMidday ==
    (input /= None /\ output /= None /\ Get(output).ok) =>
       LET list == ForecastListOf(Get(input).forecastResp.body)
           daily == Get(output).value.daily
       IN  (\A i \in 1..Len(list) : SampleOrdered(list[i])) =>
              /\ Len(daily) >= 1
              /\ \A i \in 1..Len(daily) :
                    /\ daily[i].temp.min <= daily[i].temp.day
                    /\ daily[i].temp.day <= daily[i].temp.max
              /\ list = <<>> =>
                    /\ Len(daily) = 1
                    /\ daily[1].temp.min = Get(output).value.current.temp
                    /\ daily[1].temp.max = Get(output).value.current.temp
                    /\ daily[1].temp.day = Get(output).value.current.temp

\* a day of two samples whose summary has the last sample's temperature, above
\* the first sample's temp_max and within the widened range
C39_Witness ==
    /\ input /= None /\ output /= None /\ Get(output).ok
    /\ LET list == ForecastListOf(Get(input).forecastResp.body)
           daily == Get(output).value.daily
       IN  /\ Len(list) = 3
           /\ Len(daily) = 2
           /\ daily[1].temp.day = list[2].main.temp
           /\ daily[1].temp.day > list[1].main.temp_max
           /\ daily[1].temp.day <= daily[1].temp.max
           /\ daily[1].temp.min = list[2].main.temp_min

====
